---------------------------- MODULE Spec2Model ----------------------------
(***************************************************************************)
(* Stellar evolution and catalogue lookup of AstroUtils.                   *)
(*                                                                         *)
(* Four machines share this module, each with its own specification:       *)
(*   SpecMassIndex      ParsecData::get_closest_mass_index, the binary     *)
(*                      search over SORTED_MASSES, one loop iteration per  *)
(*                      step;                                              *)
(*   SpecClosestParams  ParsecData::get_closest_params, the linear scan    *)
(*                      over one trajectory;                               *)
(*   SpecEvolution      StarDataEvolution (has_changed, time_until_death,  *)
(*                      the four apply_to queries);                        *)
(*   SpecLifestageNew   StarDataLifestageEvolution::new.                   *)
(*                                                                         *)
(* Numbers.  Masses are integers in units of 1e-4 solar masses, so that    *)
(* the test offset 1e-4 is 1.  Times are integers in ticks, TicksPerYear   *)
(* ticks to the year.  Option<T> is a sequence: <<>> is None, <<v>> is     *)
(* Some(v).  Floating point values are modelled by exact integers; NaN and *)
(* the infinities are not modelled.                                        *)
(***************************************************************************)
EXTENDS Integers, Sequences, FiniteSets

VARIABLES
    \* get_closest_mass_index
    mass,            \* the argument
    min_index,       \* local
    max_index,       \* local
    pc,              \* "while" | "done" | "idle"
    mass_index,      \* the returned index (0-based), -1 before the return
    \* get_closest_params
    trajectory,      \* the ages of the trajectory's lines, in order
    actual_age_in_years,
    params_pc,       \* "call" | "done" | "idle"
    age_index,       \* the index (0-based) of the returned line
    \* StarDataEvolution: the fields of self
    lifestage_evolution,   \* Option<StarDataLifestageEvolution>
    age,                   \* Option<Time>
    lifetime,              \* Time
    fate,                  \* StarFate
    \* StarDataEvolution: the last query and what it did
    query,           \* [fn, value, then, time, fate_return]
    outcome,         \* of apply_to_*: [branch, fate_call, result]
    changed,         \* of has_changed
    until_death,     \* of time_until_death: Option<Time>
    \* StarDataLifestageEvolution::new
    new_args,        \* [now, then, years]
    new_pc,          \* "call" | "done" | "idle"
    new_lifestage,   \* Option<StarDataLifestageEvolution>: Some once returned
    \* PARSEC_DATA as one caller finds it
    parsec_data,     \* the Result inside the mutex: "Ok" | "Err"
    mutex_poisoned,  \* whether PARSEC_DATA.lock() returns a PoisonError
    \* generate_random_stars, chunk by chunk
    rs_pc,           \* "lock" | "while" | "done" | "idle"
    number_of_stars_in_sphere,
    remaining,       \* local
    stars_len,       \* stars.len()
    chunk_draws,     \* per chunk, the calls of generate_visible_random_star
    rs_result,       \* "none" | "Ok" | "MutexPoison" | "ParsecError"
    \* generate_random_stars and generate_random_star, draw by draw
    gen_fn,          \* the function called
    gen_pc,          \* "lock" | "chunk" | "first" | "while" | "unwrap" | "done" | "idle"
    max_distance,    \* the argument, as an Option<Distance>
    chunk_number,    \* generate_certain_number_of_random_stars: number
    chunk_index,     \* the next element of the range the chunk maps over
    drawn,           \* every call of generate_visible_random_star so far
    stars,           \* Vec<StarData> collected by the chunk
    star,            \* generate_random_star: Option<StarData>
    gen_result,      \* "none" | "Ok" | "MutexPoison" | "ParsecError"
    \* concurrent callers of PARSEC_DATA
    caller_pc,       \* per caller: "idle" | "deref" | "new" | "lock" | "sampling"
    caller_result,   \* per caller, of its last call
    calls,           \* per caller, the calls made
    constructions,   \* the runs of ParsecData::new
    parsec_contents, \* what the loaded catalog holds, 0 while there is none
    \* get_life_expectancy_in_years
    life_trajectory, \* the argument: the ages of its lines
    life_pc,         \* "call" | "done" | "idle"
    life_expectancy, \* Option<u32>: Some once returned
    \* ParsecData::read_file
    file_rows,       \* read_file: the rows of the file, in order
    line_no,         \* the rows read_file has passed to read_line
    mass_position,   \* Option<usize>: the slot of the file
    catalog_data,    \* ParsecData::data: per grid index, the lines pushed
    build_result,    \* "none", "Ok" or "ParsecDataNotAvailable"
    con_stars,       \* stars: the longitude of each star on the ecliptic
    con_fn,          \* the function called
    con_pc,          \* "for", "while", "done" or "idle"
    con_todo,        \* collect_connections: what is left of all_connections
    visited,         \* minimum_spanning_tree: Vec<usize>
    con_result,      \* the Vec<Connection> built and returned
    angle_input,     \* the radian of the angle before the call
    normalization,   \* Normalizations
    angle_pc,        \* "call", "done" or "idle"
    radian,          \* Angle::radian
    asked,           \* per earlier query of the evolution: whether it was at a time after the death
    reach_args,      \* is_reachable_within: [start, end, max_steps, connections]
    reach_pc,        \* "call", "done" or "idle"
    reach_result,    \* "none", "true", "false" or "underflow"
    appearance_a,    \* a StarAppearance: [illuminance, direction_in_ecliptic]
    appearance_b,    \* another StarAppearance
    same_ab,         \* Option<bool>: a.apparently_the_same(&b), once called
    same_ba          \* Option<bool>: b.apparently_the_same(&a), once called

parsec_vars == <<mass, min_index, max_index, pc, mass_index>>
params_vars == <<trajectory, actual_age_in_years, params_pc, age_index>>
self_vars == <<lifestage_evolution, age, lifetime, fate>>
evolution_vars == <<self_vars, query, outcome, changed, until_death>>
new_vars == <<new_args, new_pc, new_lifestage>>
lock_vars == <<parsec_data, mutex_poisoned>>
chunk_vars == <<rs_pc, number_of_stars_in_sphere, remaining, stars_len, chunk_draws,
                rs_result>>
stars_vars == <<lock_vars, chunk_vars>>
draw_vars == <<gen_fn, gen_pc, max_distance, chunk_number, chunk_index, drawn, stars,
               star,
               gen_result>>
caller_vars == <<caller_pc, caller_result, calls, constructions, parsec_contents>>
life_vars == <<life_trajectory, life_pc, life_expectancy>>
file_vars == <<file_rows, line_no, mass_position, catalog_data, build_result>>
con_vars == <<con_stars, con_fn, con_pc, con_todo, visited, con_result>>
angle_vars == <<angle_input, normalization, angle_pc, radian>>
history_vars == <<asked>>
reach_vars == <<reach_args, reach_pc, reach_result>>
same_vars == <<appearance_a, appearance_b, same_ab, same_ba>>
vars == <<parsec_vars, params_vars, evolution_vars, new_vars, stars_vars,
          draw_vars, caller_vars, life_vars, file_vars, con_vars, angle_vars, history_vars, reach_vars, same_vars>>

Abs(x) == IF x < 0 THEN -x ELSE x

None == <<>>
Some(v) == <<v>>
IsSome(o) == Len(o) = 1
Unwrap(o) == o[1]

---------------------------------------------------------------------------
(* ParsecData::SORTED_MASSES                                               *)

\* The grid as written in the source, in hundredths of a solar mass.
SortedMassesHundredths ==
    << 9, 10, 12, 14, 16, 20, 25, 30, 35, 40,
       45, 50, 55, 60, 65, 70, 75, 80, 85, 90,
       95, 100, 105, 110, 115, 120, 125, 130, 135, 140,
       145, 150, 155, 160, 165, 170, 175, 180, 185, 190,
       195, 200, 205, 210, 215, 220, 225, 230, 240, 260,
       280, 300, 320, 340, 360, 380, 400, 420, 440, 460,
       480, 500, 520, 540, 560, 580, 600, 620, 640, 700,
       800, 900, 1000, 1200, 1400, 1600, 1800, 2000, 2400, 2800,
       3000, 3500, 4000, 4500, 5000, 5500, 6000, 6500, 7000, 7500,
       8000, 9000, 9500, 10000, 12000, 13000, 20000, 25000, 30000, 35000 >>

\* SORTED_MASSES.len()
SortedMassesLen == Len(SortedMassesHundredths)

\* SORTED_MASSES[i], 0-based as in the source, in units of 1e-4 solar masses.
SORTED_MASSES == [i \in 0..(SortedMassesLen - 1) |-> SortedMassesHundredths[i + 1] * 100]

\* tests::masses_are_mapped_to_themselves: SMALL_OFFSET = 1e-4
SMALL_OFFSET == 1

---------------------------------------------------------------------------
(* ParsecData::get_closest_mass_index                                      *)

\* The largest distance of a query mass from a grid mass or from the middle
\* between two neighbouring grid masses, in units of 1e-4 solar masses.
MaxOffset == 2

GridIndices == 0..(SortedMassesLen - 1)

Midpoint(i) == (SORTED_MASSES[i] + SORTED_MASSES[i + 1]) \div 2

\* The query masses: around every grid mass, around every middle between two
\* neighbours, and far outside the grid on both sides.
QueryMasses ==
    {SORTED_MASSES[i] + d : i \in GridIndices, d \in -MaxOffset..MaxOffset}
    \cup {Midpoint(i) + d : i \in 0..(SortedMassesLen - 2), d \in -MaxOffset..MaxOffset}
    \cup {-SORTED_MASSES[SortedMassesLen - 1], 0, 2 * SORTED_MASSES[SortedMassesLen - 1]}

\* let mid_index = (max_index + min_index) / 2;
MidIndexOffByOne(lo, hi) == (hi + lo) \div 2 + 1
MidIndex(lo, hi) == (hi + lo) \div 2

\* if mass > mid_mass
GoesUp(m, mid_index) == m > SORTED_MASSES[mid_index]

\* The closing comparison of the two remaining candidates.
ClosestOfPairAlwaysMax(m, lo, hi) == hi
ClosestOfPair(m, lo, hi) ==
    IF Abs(m - SORTED_MASSES[lo]) < Abs(m - SORTED_MASSES[hi]) THEN lo ELSE hi

InitMassIndex ==
    /\ mass \in QueryMasses
    /\ min_index = 0
    /\ max_index = SortedMassesLen - 1
    /\ pc = "while"
    /\ mass_index = -1

IdleMassIndex ==
    /\ mass = 0
    /\ min_index = 0
    /\ max_index = 0
    /\ pc = "idle"
    /\ mass_index = -1

\* One iteration of the loop, mass > mid_mass.
LoopRaiseMin ==
    /\ pc = "while"
    /\ max_index - min_index > 1
    /\ GoesUp(mass, MidIndex(min_index, max_index))
    /\ min_index' = MidIndex(min_index, max_index)
    /\ UNCHANGED <<mass, max_index, pc, mass_index>>

\* One iteration of the loop, mass <= mid_mass.
LoopLowerMax ==
    /\ pc = "while"
    /\ max_index - min_index > 1
    /\ ~GoesUp(mass, MidIndex(min_index, max_index))
    /\ max_index' = MidIndex(min_index, max_index)
    /\ UNCHANGED <<mass, min_index, pc, mass_index>>

\* The loop has ended: return the closer of the two candidates.
ReturnMassIndex ==
    /\ pc = "while"
    /\ ~(max_index - min_index > 1)
    /\ mass_index' = ClosestOfPair(mass, min_index, max_index)
    /\ pc' = "done"
    /\ UNCHANGED <<mass, min_index, max_index>>

NextMassIndex ==
    \/ LoopRaiseMin /\ UNCHANGED <<params_vars, evolution_vars, new_vars, stars_vars, draw_vars, caller_vars, life_vars, file_vars, con_vars, angle_vars, history_vars, reach_vars, same_vars>>
    \/ LoopLowerMax /\ UNCHANGED <<params_vars, evolution_vars, new_vars, stars_vars, draw_vars, caller_vars, life_vars, file_vars, con_vars, angle_vars, history_vars, reach_vars, same_vars>>
    \/ ReturnMassIndex /\ UNCHANGED <<params_vars, evolution_vars, new_vars, stars_vars, draw_vars, caller_vars, life_vars, file_vars, con_vars, angle_vars, history_vars, reach_vars, same_vars>>

\* |mass - SORTED_MASSES[i]|
MassDistance(m, i) == Abs(m - SORTED_MASSES[i])

\* C1: every grid mass m, and m + SMALL_OFFSET and m - SMALL_OFFSET, is mapped
\* by get_closest_mass_index to the index of m itself.
C1_MassesAreMappedToThemselves ==
    pc = "done" =>
        \A i \in GridIndices :
            mass \in {SORTED_MASSES[i], SORTED_MASSES[i] + SMALL_OFFSET,
                      SORTED_MASSES[i] - SMALL_OFFSET}
                => mass_index = i

\* The search has returned its own index for a mass in the middle of the
\* grid plus the offset.
C1_Witness ==
    /\ pc = "done"
    /\ mass = SORTED_MASSES[50] + SMALL_OFFSET
    /\ mass_index = 50

\* C2: for every query mass, also outside the grid, the binary search
\* terminates (every iteration strictly narrows max_index - min_index, and
\* until the call has returned it can take a step that changes its state) and
\* returns an index of the grid whose mass is at minimal distance from the
\* query.
C2_ClosestMassIndexIsArgMin ==
    /\ [](pc = "done" =>
            /\ mass_index \in GridIndices
            /\ \A j \in GridIndices :
                   MassDistance(mass, mass_index) <= MassDistance(mass, j))
    /\ [][pc = "while" =>
            \/ pc' = "done"
            \/ /\ pc' = "while"
               /\ 0 <= max_index' - min_index'
               /\ max_index' - min_index' < max_index - min_index]_vars
    /\ [](pc = "while" => ENABLED <<NextMassIndex>>_vars)

\* The search has returned for a mass above the largest grid mass, after at
\* least one iteration.
C2_Witness ==
    /\ pc = "done"
    /\ mass > SORTED_MASSES[SortedMassesLen - 1]
    /\ mass_index = SortedMassesLen - 1
    /\ min_index = SortedMassesLen - 2

---------------------------------------------------------------------------
(* ParsecData::get_closest_params                                          *)

\* Float::MAX, the largest finite value of the number type: here the largest
\* integer of the model.
FloatMax == 2147483647

\* The longest trajectory and the largest age (of a line or asked for).
MaxTrajectoryLen == 3
MaxAgeInYears == 3

Ages == 0..MaxAgeInYears

Trajectories == UNION {[1..n -> Ages] : n \in 1..MaxTrajectoryLen}

\* if age_difference < closest_age
IsCloserOrEqual(age_difference, closest_age) == age_difference <= closest_age
IsCloser(age_difference, closest_age) == age_difference < closest_age

\* The for loop from line i (1-based here) on, with the locals closest_age
\* and age_index (0-based) as they stand before line i.
RECURSIVE ScanFrom(_, _, _, _, _)
ScanFrom(t, actual, i, closest_age, index) ==
    IF i > Len(t) THEN index
    ELSE LET age_difference == Abs(t[i] - actual)
         IN  IF IsCloser(age_difference, closest_age)
             THEN ScanFrom(t, actual, i + 1, age_difference, i - 1)
             ELSE ScanFrom(t, actual, i + 1, closest_age, index)

\* The index of the line get_closest_params returns a reference to.
GetClosestParamsIndex(t, actual) == ScanFrom(t, actual, 1, FloatMax, 0)

\* An index that every trajectory, also the empty one, is taken to hold.
IsAnyIndex(t, i) == TRUE

\* &trajectory[age_index] finds a line; it panics otherwise.
IsInBounds(t, i) == i \in 0..(Len(t) - 1)

\* A trajectory of the catalog has lines or, without source data, none.
InitClosestParams ==
    /\ trajectory \in Trajectories \cup {<<>>}
    /\ actual_age_in_years \in Ages
    /\ params_pc = "call"
    /\ age_index = 0

IdleClosestParams ==
    /\ trajectory = <<>>
    /\ actual_age_in_years = 0
    /\ params_pc = "idle"
    /\ age_index = 0

GetClosestParams ==
    /\ params_pc = "call"
    /\ age_index' = GetClosestParamsIndex(trajectory, actual_age_in_years)
    /\ params_pc' = IF IsInBounds(trajectory, age_index') THEN "done" ELSE "panicked"
    /\ UNCHANGED <<trajectory, actual_age_in_years>>

NextClosestParams ==
    \/ GetClosestParams /\ UNCHANGED <<parsec_vars, evolution_vars, new_vars, stars_vars, draw_vars, caller_vars, life_vars, file_vars, con_vars, angle_vars, history_vars, reach_vars, same_vars>>

\* |line.age - actual_age_in_years| of the line at 0-based index i
AgeDifference(i) == Abs(trajectory[i + 1] - actual_age_in_years)

\* C3: for a non-empty trajectory get_closest_params returns the line whose
\* age is nearest the target age, and of several equally near lines the one
\* with the lowest index.
C3_ClosestParamsIsFirstNearest ==
    params_pc = "done" =>
        /\ age_index \in 0..(Len(trajectory) - 1)
        /\ \A j \in 0..(Len(trajectory) - 1) :
               AgeDifference(age_index) <= AgeDifference(j)
        /\ \A j \in 0..(age_index - 1) :
               AgeDifference(age_index) < AgeDifference(j)

\* The scan has returned a line that is neither the first nor the last, with
\* a later line of a different age equally near.
C3_Witness ==
    /\ params_pc = "done"
    /\ age_index = 1
    /\ Len(trajectory) = 3
    /\ trajectory[3] # trajectory[2]
    /\ AgeDifference(2) = AgeDifference(1)

\* C20 as stated: called on an empty trajectory, get_closest_params selects
\* index 0 and completes with that selection rather than failing.
C20_EmptyTrajectoryCompletes ==
    (trajectory = <<>> /\ params_pc \notin {"call", "idle"}) =>
        /\ age_index = 0
        /\ params_pc = "done"

\* C20, amended: called on an empty trajectory, get_closest_params leaves
\* its selected index at the default 0 and then panics on &trajectory[0]: the
\* call does not return.
C20_EmptyTrajectoryPanics ==
    (trajectory = <<>> /\ params_pc \notin {"call", "idle"}) =>
        /\ age_index = 0
        /\ params_pc = "panicked"

\* The call on an empty trajectory is over.
C20_Witness ==
    /\ trajectory = <<>>
    /\ actual_age_in_years > 0
    /\ params_pc = "panicked"
    /\ age_index = 0

---------------------------------------------------------------------------
(* StarDataEvolution                                                       *)

\* The resolution of the time axis: ticks to the year.
TicksPerYear == 2

\* The largest age and lifetime of a star and the largest |time| asked
\* for, in ticks; the largest per-year rate; the largest property value.
MaxAge == 1
MaxLifetime == 2
MaxTime == 4
MaxRate == 1
MaxValue == 2

TIME_ZERO == 0
MASS_ZERO == 0
DISTANCE_ZERO == 0
LUMINOSITY_ZERO == 0
TEMPERATURE_ZERO == 0

\* has_changed: EVOLUTION_TIMESCALE, 1_000 years, and DEATH_TIMESCALE, 1 year
EVOLUTION_TIMESCALE == 1000 * TicksPerYear
DEATH_TIMESCALE == TicksPerYear

\* The variants of StarFate the source names.
StarFate == {"WhiteDwarf", "TypeIISupernova"}

\* What a function of the fate may return: any value.
FateReturns == 0..MaxValue

Rates == 0..MaxRate

LifestageEvolutions ==
    [mass_per_year : Rates, radius_per_year : Rates,
     luminous_intensity_per_year : Rates, temperature_per_year : Rates]

Times == -MaxTime..MaxTime
Values == 1..MaxValue

\* rate * time_since_epoch.to_yr(), on the integer grid of the values
TimesYears(rate, time_since_epoch) == (rate * time_since_epoch) \div TicksPerYear

NoQuery == [fn |-> "none", value |-> 0, then |-> 0, time |-> 0, fate_return |-> 0]
NoOutcome == [branch |-> "none", fate_call |-> None, result |-> 0]

\* self.age.map(|age| self.lifetime - age - time_since_epoch)
time_until_death_ignoring_age(time_since_epoch) ==
    Some(lifetime - (IF IsSome(age) THEN Unwrap(age) ELSE 0) - time_since_epoch)
\* As time_until_death, but a star once found dead stays dead for every later
\* query.
time_until_death_once_dead(time_since_epoch) ==
    IF IsSome(age) /\ (\E k \in 1..Len(asked) : asked[k])
    THEN Some(-1)
    ELSE IF IsSome(age) THEN Some(lifetime - Unwrap(age) - time_since_epoch) ELSE None
time_until_death(time_since_epoch) ==
    IF IsSome(age) THEN Some(lifetime - Unwrap(age) - time_since_epoch) ELSE None

\* The call self.fate.apply_to_<quantity>(value, -time_until_death)
FateCall(quantity, value, death) ==
    Some([fate |-> fate, quantity |-> quantity, value |-> value,
          time_since_death |-> -Unwrap(death)])

\* if let Some(time_until_death) = ... { if time_until_death < TIME_ZERO
IsDeadOrDying(death) == IsSome(death) /\ Unwrap(death) <= TIME_ZERO
IsDead(death) == IsSome(death) /\ Unwrap(death) < TIME_ZERO

PostDeath(call, fate_return) ==
    [branch |-> "PostDeath", fate_call |-> call, result |-> fate_return]
Interpolating(value) ==
    [branch |-> "Interpolating", fate_call |-> None, result |-> value]

apply_to_mass(value, time_since_epoch, fate_return) ==
    LET death == time_until_death(time_since_epoch)
    IN  IF IsDead(death)
        THEN PostDeath(FateCall("mass", value, death), fate_return)
        ELSE IF IsSome(lifestage_evolution)
        THEN Interpolating(value + TimesYears(Unwrap(lifestage_evolution).mass_per_year,
                                              time_since_epoch))
        ELSE Interpolating(value)

\* As apply_to_radius, with the rate of the mass.
apply_to_radius_with_mass_rate(value, time_since_epoch, fate_return) ==
    LET death == time_until_death(time_since_epoch)
    IN  IF IsDead(death)
        THEN PostDeath(FateCall("radius", value, death), fate_return)
        ELSE IF IsSome(lifestage_evolution)
        THEN Interpolating(value + TimesYears(Unwrap(lifestage_evolution).mass_per_year,
                                              time_since_epoch))
        ELSE Interpolating(value)

apply_to_radius(value, time_since_epoch, fate_return) ==
    LET death == time_until_death(time_since_epoch)
    IN  IF IsDead(death)
        THEN PostDeath(FateCall("radius", value, death), fate_return)
        ELSE IF IsSome(lifestage_evolution)
        THEN Interpolating(value + TimesYears(Unwrap(lifestage_evolution).radius_per_year,
                                              time_since_epoch))
        ELSE Interpolating(value)

\* As apply_to_luminous_intensity, handing the fate time_until_death itself
\* instead of its negation.
apply_to_luminous_intensity_unnegated(value, time_since_epoch, fate_return) ==
    LET death == time_until_death(time_since_epoch)
    IN  IF IsDead(death)
        THEN PostDeath(Some([fate |-> fate, quantity |-> "luminous_intensity",
                             value |-> value, time_since_death |-> Unwrap(death)]),
                       fate_return)
        ELSE IF IsSome(lifestage_evolution)
        THEN Interpolating(value
                 + TimesYears(Unwrap(lifestage_evolution).luminous_intensity_per_year,
                              time_since_epoch))
        ELSE Interpolating(value)

apply_to_luminous_intensity(value, time_since_epoch, fate_return) ==
    LET death == time_until_death(time_since_epoch)
    IN  IF IsDead(death)
        THEN PostDeath(FateCall("luminous_intensity", value, death), fate_return)
        ELSE IF IsSome(lifestage_evolution)
        THEN Interpolating(value
                 + TimesYears(Unwrap(lifestage_evolution).luminous_intensity_per_year,
                              time_since_epoch))
        ELSE Interpolating(value)

apply_to_temperature(value, time_since_epoch, fate_return) ==
    LET death == time_until_death(time_since_epoch)
    IN  IF IsDead(death)
        THEN PostDeath(FateCall("temperature", value, death), fate_return)
        ELSE IF IsSome(lifestage_evolution)
        THEN Interpolating(value
                 + TimesYears(Unwrap(lifestage_evolution).temperature_per_year,
                              time_since_epoch))
        ELSE Interpolating(value)

get_lifestage_mass_per_year ==
    IF IsSome(lifestage_evolution)
    THEN Unwrap(lifestage_evolution).mass_per_year ELSE MASS_ZERO

get_lifestage_radius_per_year ==
    IF IsSome(lifestage_evolution)
    THEN Unwrap(lifestage_evolution).radius_per_year ELSE DISTANCE_ZERO

get_lifestage_luminous_intensity_per_year ==
    IF IsSome(lifestage_evolution)
    THEN Unwrap(lifestage_evolution).luminous_intensity_per_year ELSE LUMINOSITY_ZERO

get_lifestage_temperature_per_year ==
    IF IsSome(lifestage_evolution)
    THEN Unwrap(lifestage_evolution).temperature_per_year ELSE TEMPERATURE_ZERO

\* As has_changed, with the sign of the death test turned round.
has_changed_before_death(then, now) ==
    LET death == time_until_death(now)
        diff == Abs(then - now)
    IN  IF IsSome(death) /\ Unwrap(death) > TIME_ZERO
                         /\ Abs(Unwrap(death)) < DEATH_TIMESCALE
        THEN TRUE
        ELSE IF IsSome(lifestage_evolution) /\ diff > EVOLUTION_TIMESCALE
        THEN TRUE
        ELSE FALSE

\* As has_changed, with the EVOLUTION_TIMESCALE itself counted as exceeded.
has_changed_at_timescale(then, now) ==
    LET death == time_until_death(now)
        diff == Abs(then - now)
    IN  IF IsSome(death) /\ Unwrap(death) < TIME_ZERO
                         /\ Abs(Unwrap(death)) < DEATH_TIMESCALE
        THEN TRUE
        ELSE IF IsSome(lifestage_evolution) /\ diff >= EVOLUTION_TIMESCALE
        THEN TRUE
        ELSE FALSE

has_changed(then, now) ==
    LET death == time_until_death(now)
        diff == Abs(then - now)
    IN  IF IsSome(death) /\ Unwrap(death) < TIME_ZERO
                         /\ Abs(Unwrap(death)) < DEATH_TIMESCALE
        THEN TRUE
        ELSE IF IsSome(lifestage_evolution) /\ diff > EVOLUTION_TIMESCALE
        THEN TRUE
        ELSE FALSE

\* The differences then - now asked for: none, one tick, and around the
\* EVOLUTION_TIMESCALE, in both directions.
ThenOffsets ==
    {-1, 0, 1}
    \cup {EVOLUTION_TIMESCALE + e : e \in -1..1}
    \cup {-(EVOLUTION_TIMESCALE + e) : e \in -1..1}

\* StarDataEvolution::new with any fields, StarDataEvolution::NONE among them.
InitEvolution ==
    /\ lifestage_evolution \in {None} \cup {Some(e) : e \in LifestageEvolutions}
    /\ age \in {None} \cup {Some(a) : a \in 0..MaxAge}
    /\ lifetime \in 0..MaxLifetime
    /\ fate \in StarFate
    /\ query = NoQuery
    /\ outcome = NoOutcome
    /\ changed = FALSE
    /\ until_death = None

IdleEvolution ==
    /\ lifestage_evolution = None
    /\ age = None
    /\ lifetime = TIME_ZERO
    /\ fate = "WhiteDwarf"
    /\ query = NoQuery
    /\ outcome = NoOutcome
    /\ changed = FALSE
    /\ until_death = None

\* The return value of the fate's function, kept only when it was called.
Asked(fn, value, time_since_epoch, out, fate_return) ==
    [fn |-> fn, value |-> value, then |-> 0, time |-> time_since_epoch,
     fate_return |-> IF IsSome(out.fate_call) THEN fate_return ELSE 0]

ApplyToMass ==
    /\ query.fn = "none"
    /\ \E value \in Values, t \in Times, r \in FateReturns :
          LET out == apply_to_mass(value, t, r)
          IN  /\ outcome' = out
              /\ query' = Asked("apply_to_mass", value, t, out, r)
    /\ UNCHANGED <<self_vars, changed, until_death>>

ApplyToRadius ==
    /\ query.fn = "none"
    /\ \E value \in Values, t \in Times, r \in FateReturns :
          LET out == apply_to_radius(value, t, r)
          IN  /\ outcome' = out
              /\ query' = Asked("apply_to_radius", value, t, out, r)
    /\ UNCHANGED <<self_vars, changed, until_death>>

ApplyToLuminousIntensity ==
    /\ query.fn = "none"
    /\ \E value \in Values, t \in Times, r \in FateReturns :
          LET out == apply_to_luminous_intensity(value, t, r)
          IN  /\ outcome' = out
              /\ query' = Asked("apply_to_luminous_intensity", value, t, out, r)
    /\ UNCHANGED <<self_vars, changed, until_death>>

ApplyToTemperature ==
    /\ query.fn = "none"
    /\ \E value \in Values, t \in Times, r \in FateReturns :
          LET out == apply_to_temperature(value, t, r)
          IN  /\ outcome' = out
              /\ query' = Asked("apply_to_temperature", value, t, out, r)
    /\ UNCHANGED <<self_vars, changed, until_death>>

HasChanged ==
    /\ query.fn = "none"
    /\ \E now \in Times, d \in ThenOffsets :
          /\ changed' = has_changed(now + d, now)
          /\ query' = [fn |-> "has_changed", value |-> 0, then |-> now + d,
                       time |-> now, fate_return |-> 0]
    /\ UNCHANGED <<self_vars, outcome, until_death>>

TimeUntilDeath ==
    /\ query.fn = "none"
    /\ \E t \in Times :
          /\ until_death' = time_until_death(t)
          /\ query' = [fn |-> "time_until_death", value |-> 0, then |-> 0,
                       time |-> t, fate_return |-> 0]
    /\ UNCHANGED <<self_vars, outcome, changed>>

NextEvolution ==
    \/ ApplyToMass /\ UNCHANGED <<parsec_vars, params_vars, new_vars, stars_vars, draw_vars, caller_vars, life_vars, file_vars, con_vars, angle_vars, history_vars, reach_vars, same_vars>>
    \/ ApplyToRadius /\ UNCHANGED <<parsec_vars, params_vars, new_vars, stars_vars, draw_vars, caller_vars, life_vars, file_vars, con_vars, angle_vars, history_vars, reach_vars, same_vars>>
    \/ ApplyToLuminousIntensity /\ UNCHANGED <<parsec_vars, params_vars, new_vars, stars_vars, draw_vars, caller_vars, life_vars, file_vars, con_vars, angle_vars, history_vars, reach_vars, same_vars>>
    \/ ApplyToTemperature /\ UNCHANGED <<parsec_vars, params_vars, new_vars, stars_vars, draw_vars, caller_vars, life_vars, file_vars, con_vars, angle_vars, history_vars, reach_vars, same_vars>>
    \/ HasChanged /\ UNCHANGED <<parsec_vars, params_vars, new_vars, stars_vars, draw_vars, caller_vars, life_vars, file_vars, con_vars, angle_vars, history_vars, reach_vars, same_vars>>
    \/ TimeUntilDeath /\ UNCHANGED <<parsec_vars, params_vars, new_vars, stars_vars, draw_vars, caller_vars, life_vars, file_vars, con_vars, angle_vars, history_vars, reach_vars, same_vars>>

ApplyFns ==
    {"apply_to_mass", "apply_to_radius", "apply_to_luminous_intensity",
     "apply_to_temperature"}

\* The quantity an apply_to query is about, and the getter of its rate.
QuantityOf(fn) ==
    CASE fn = "apply_to_mass" -> "mass"
      [] fn = "apply_to_radius" -> "radius"
      [] fn = "apply_to_luminous_intensity" -> "luminous_intensity"
      [] fn = "apply_to_temperature" -> "temperature"

RatePerYearOf(fn) ==
    CASE fn = "apply_to_mass" -> get_lifestage_mass_per_year
      [] fn = "apply_to_radius" -> get_lifestage_radius_per_year
      [] fn = "apply_to_luminous_intensity" -> get_lifestage_luminous_intensity_per_year
      [] fn = "apply_to_temperature" -> get_lifestage_temperature_per_year

\* lifetime - age - time of the last query, for a star of known age
TimeUntilDeathAtQuery == lifetime - Unwrap(age) - query.time

\* C4: for a star of known age every apply_to query takes the PostDeath
\* branch exactly when lifetime - age - time_since_epoch is negative, and the
\* Interpolating branch when it is zero or positive.
C4_BranchSwitchesAtDeath ==
    (query.fn \in ApplyFns /\ IsSome(age)) =>
        /\ TimeUntilDeathAtQuery < 0 => outcome.branch = "PostDeath"
        /\ TimeUntilDeathAtQuery >= 0 => outcome.branch = "Interpolating"

\* A query at the very instant of death, which interpolates.
C4_Witness ==
    /\ query.fn = "apply_to_temperature"
    /\ IsSome(age)
    /\ TimeUntilDeathAtQuery = 0
    /\ query.time > 0
    /\ outcome.branch = "Interpolating"

\* C5: in the PostDeath branch every apply_to query calls the fate's function
\* for its quantity with the input value and with the time since death,
\* age + time_since_epoch - lifetime, which is positive, and returns what that
\* function returns, the lifestage rates not applied.
C5_PostDeathDelegatesToFate ==
    (query.fn \in ApplyFns /\ outcome.branch = "PostDeath") =>
        /\ IsSome(age)
        /\ outcome.fate_call =
               Some([fate |-> fate, quantity |-> QuantityOf(query.fn),
                     value |-> query.value,
                     time_since_death |-> Unwrap(age) + query.time - lifetime])
        /\ Unwrap(outcome.fate_call).time_since_death > 0
        /\ outcome.result = query.fate_return

\* A luminous intensity asked for after the death of a star whose rate would
\* have changed the value, had it been applied.
C5_Witness ==
    /\ query.fn = "apply_to_luminous_intensity"
    /\ outcome.branch = "PostDeath"
    /\ TimesYears(get_lifestage_luminous_intensity_per_year, query.time) > 0
    /\ outcome.result = query.fate_return
    /\ outcome.result = query.value

\* C6: in the Interpolating branch every apply_to query returns the input
\* value plus the rate of its own quantity times the years since the epoch,
\* and the input value unchanged when there are no lifestage rates.
C6_InterpolatingIsLinear ==
    (query.fn \in ApplyFns /\ outcome.branch = "Interpolating") =>
        /\ outcome.fate_call = None
        /\ outcome.result
               = query.value + TimesYears(RatePerYearOf(query.fn), query.time)
        /\ lifestage_evolution = None => outcome.result = query.value

\* A radius interpolated with a rate that differs from the rate of the mass,
\* over at least a year.
C6_Witness ==
    /\ query.fn = "apply_to_radius"
    /\ outcome.branch = "Interpolating"
    /\ IsSome(age)
    /\ get_lifestage_radius_per_year > get_lifestage_mass_per_year
    /\ query.time >= TicksPerYear
    /\ outcome.result > query.value

\* C7: with the age unknown no apply_to query takes the PostDeath branch or
\* calls the fate, time_until_death is None, has_changed reports nothing but
\* the drift of present lifestage rates, and a property whose rate is absent
\* or zero is returned unchanged, at every time.
C7_UnknownAgeNeverDies ==
    age = None =>
        /\ query.fn \in ApplyFns =>
              /\ outcome.branch = "Interpolating"
              /\ outcome.fate_call = None
              /\ RatePerYearOf(query.fn) = 0 => outcome.result = query.value
        /\ query.fn = "time_until_death" => until_death = None
        /\ (query.fn = "has_changed" /\ changed) =>
              /\ IsSome(lifestage_evolution)
              /\ Abs(query.then - query.time) > EVOLUTION_TIMESCALE

\* A mass asked for, with the age unknown, at a time after the lifetime has
\* run out.
C7_Witness ==
    /\ age = None
    /\ query.fn = "apply_to_mass"
    /\ lifetime - query.time < 0
    /\ outcome.branch = "Interpolating"
    /\ outcome.result = query.value

\* The death test of has_changed, for a star of known age.
DiedWithinTheLastYear ==
    /\ TimeUntilDeathAtQuery < 0
    /\ -TimeUntilDeathAtQuery < DEATH_TIMESCALE

\* C8 as stated: has_changed is true whenever the death lies less than a year
\* from now, ahead or behind.
C8_DeathWithinAYearEitherWay ==
    (query.fn = "has_changed" /\ IsSome(age)
        /\ Abs(TimeUntilDeathAtQuery) < DEATH_TIMESCALE) => changed

\* C8, amended: has_changed is true whenever the star died less than a year
\* before now; a death that is still up to a year ahead of now, or falls on
\* now, is not reported (without lifestage rates has_changed is then false).
C8_DeathBehindNow ==
    (query.fn = "has_changed" /\ IsSome(age)) =>
        /\ DiedWithinTheLastYear => changed
        /\ (/\ 0 <= TimeUntilDeathAtQuery
            /\ TimeUntilDeathAtQuery < DEATH_TIMESCALE
            /\ lifestage_evolution = None) => ~changed

\* has_changed has reported the death of a star without lifestage rates that
\* died less than a year before now.
C8_Witness ==
    /\ query.fn = "has_changed"
    /\ IsSome(age)
    /\ DiedWithinTheLastYear
    /\ lifestage_evolution = None
    /\ query.then = query.time
    /\ changed

\* C9: when the death test does not apply, has_changed is true exactly when
\* lifestage rates are present and |then - now| is greater than 1,000 years;
\* at exactly 1,000 years, and without lifestage rates, it is false.
C9_DriftBeyondTimescale ==
    (query.fn = "has_changed" /\ ~(IsSome(age) /\ DiedWithinTheLastYear)) =>
        (changed <=> /\ IsSome(lifestage_evolution)
                     /\ Abs(query.then - query.time) > 1000 * TicksPerYear)

\* has_changed has returned false for a star with lifestage rates and a
\* difference of exactly 1,000 years.
C9_Witness ==
    /\ query.fn = "has_changed"
    /\ IsSome(lifestage_evolution)
    /\ Abs(query.then - query.time) = 1000 * TicksPerYear
    /\ ~changed

---------------------------------------------------------------------------
(* StarDataLifestageEvolution::new                                         *)

\* The largest property value of a sample is 2 * MaxSample; the largest
\* number of years between the two samples.
MaxSample == 1
MaxYears == 3

SampleValues == {2 * k : k \in 0..MaxSample}
OptionalSampleValues == {None} \cup {Some(v) : v \in SampleValues}

\* The fields of StarData that new reads.
StarData ==
    [mass : OptionalSampleValues, radius : OptionalSampleValues,
     luminous_intensity : OptionalSampleValues, temperature : SampleValues]

\* (now - then) / years
PerYear(difference, years) == difference \div years

\* match (now.x, then.x) { (Some(n), Some(t)) => (n - t) / years, _ => ZERO }
RateOrZero(now_x, then_x, years, zero) ==
    IF IsSome(now_x) /\ IsSome(then_x)
    THEN PerYear(Unwrap(now_x) - Unwrap(then_x), years)
    ELSE zero

\* As new, with one match over the three optional properties: a value missing
\* in one of them leaves all three rates zero.
new_all_or_nothing(now, then, years) ==
    LET all == /\ IsSome(now.mass) /\ IsSome(then.mass)
               /\ IsSome(now.radius) /\ IsSome(then.radius)
               /\ IsSome(now.luminous_intensity) /\ IsSome(then.luminous_intensity)
    IN  [mass_per_year |->
            IF all THEN PerYear(Unwrap(now.mass) - Unwrap(then.mass), years)
            ELSE MASS_ZERO,
         radius_per_year |->
            IF all THEN PerYear(Unwrap(now.radius) - Unwrap(then.radius), years)
            ELSE DISTANCE_ZERO,
         luminous_intensity_per_year |->
            IF all THEN PerYear(Unwrap(now.luminous_intensity)
                                - Unwrap(then.luminous_intensity), years)
            ELSE LUMINOSITY_ZERO,
         temperature_per_year |-> PerYear(now.temperature - then.temperature, years)]

\* As new, with the two samples taken the other way round: then - now.
new_then_minus_now(now, then, years) ==
    [mass_per_year |-> RateOrZero(then.mass, now.mass, years, MASS_ZERO),
     radius_per_year |-> RateOrZero(then.radius, now.radius, years, DISTANCE_ZERO),
     luminous_intensity_per_year |->
         RateOrZero(then.luminous_intensity, now.luminous_intensity, years,
                    LUMINOSITY_ZERO),
     temperature_per_year |-> PerYear(then.temperature - now.temperature, years)]

new(now, then, years) ==
    [mass_per_year |-> RateOrZero(now.mass, then.mass, years, MASS_ZERO),
     radius_per_year |-> RateOrZero(now.radius, then.radius, years, DISTANCE_ZERO),
     luminous_intensity_per_year |->
         RateOrZero(now.luminous_intensity, then.luminous_intensity, years,
                    LUMINOSITY_ZERO),
     temperature_per_year |-> PerYear(now.temperature - then.temperature, years)]

InitLifestageNew ==
    /\ new_args \in [now : StarData, then : StarData, years : 1..MaxYears]
    /\ new_pc = "call"
    /\ new_lifestage = None

IdleLifestageNew ==
    /\ new_args = [now |-> 0, then |-> 0, years |-> 1]
    /\ new_pc = "idle"
    /\ new_lifestage = None

LifestageNew ==
    /\ new_pc = "call"
    /\ new_lifestage' = Some(new(new_args.now, new_args.then, new_args.years))
    /\ new_pc' = "done"
    /\ UNCHANGED new_args

NextLifestageNew ==
    \/ LifestageNew /\ UNCHANGED <<parsec_vars, params_vars, evolution_vars, stars_vars, draw_vars, caller_vars, life_vars, file_vars, con_vars, angle_vars, history_vars, reach_vars, same_vars>>

\* The rate the claim gives an optional property: (now - then) / years, or
\* zero when the value is missing in now or in then.
ExpectedRate(now_x, then_x) ==
    IF now_x # None /\ then_x # None
    THEN (now_x[1] - then_x[1]) \div new_args.years
    ELSE 0

\* C10: new(now, then, years) sets the rate of each property to
\* (now - then) / years; a property missing in now or in then (mass, radius,
\* luminous intensity) gets the rate zero, and the rate of one property
\* depends on no other property's values.
C10_RatesPerChannel ==
    new_pc = "done" =>
        LET rates == Unwrap(new_lifestage)
            now == new_args.now
            then == new_args.then
        IN  /\ rates.mass_per_year = ExpectedRate(now.mass, then.mass)
            /\ rates.radius_per_year = ExpectedRate(now.radius, then.radius)
            /\ rates.luminous_intensity_per_year
                   = ExpectedRate(now.luminous_intensity, then.luminous_intensity)
            /\ rates.temperature_per_year
                   = (now.temperature - then.temperature) \div new_args.years

\* new has returned for samples of which one lacks the mass and the other
\* the luminous intensity, while the radius is known in both and has changed.
C10_Witness ==
    /\ new_pc = "done"
    /\ new_args.now.mass = None
    /\ new_args.then.mass # None
    /\ new_args.then.luminous_intensity = None
    /\ new_args.now.luminous_intensity # None
    /\ Unwrap(new_lifestage).mass_per_year = 0
    /\ Unwrap(new_lifestage).luminous_intensity_per_year = 0
    /\ Unwrap(new_lifestage).radius_per_year > 0
    /\ new_args.years > 1

---------------------------------------------------------------------------
(* The round trip: StarDataLifestageEvolution::new, StarDataEvolution::new *)
(* and an apply_to query for the earlier sample at the time of the later.  *)

\* The samples with every property known.
KnownSampleValues == {Some(v) : v \in SampleValues}
CompleteStarData ==
    [mass : KnownSampleValues, radius : KnownSampleValues,
     luminous_intensity : KnownSampleValues, temperature : SampleValues]

InitRoundTrip ==
    /\ new_args \in [now : CompleteStarData, then : CompleteStarData,
                     years : 1..MaxYears]
    /\ new_pc = "call"
    /\ new_lifestage = None

\* StarDataEvolution::new(Some(lifestage), age, lifetime, fate)
EvolutionNew ==
    /\ new_pc = "done"
    /\ lifestage_evolution' = new_lifestage
    /\ age' \in {None, Some(0)}
    /\ lifetime' \in {TIME_ZERO, MaxLifetime, MaxYears * TicksPerYear}
    /\ fate' \in StarFate
    /\ new_pc' = "built"
    /\ UNCHANGED <<new_args, new_lifestage, query, outcome, changed, until_death>>

\* The time of the later sample, years after the earlier one.
TimeOfNow == new_args.years * TicksPerYear

RoundTripMass ==
    /\ new_pc = "built"
    /\ query.fn = "none"
    /\ LET value == Unwrap(new_args.then.mass)
           out == apply_to_mass(value, TimeOfNow, 0)
       IN  /\ outcome' = out
           /\ query' = Asked("apply_to_mass", value, TimeOfNow, out, 0)
    /\ UNCHANGED <<self_vars, changed, until_death, new_vars>>

RoundTripRadius ==
    /\ new_pc = "built"
    /\ query.fn = "none"
    /\ LET value == Unwrap(new_args.then.radius)
           out == apply_to_radius(value, TimeOfNow, 0)
       IN  /\ outcome' = out
           /\ query' = Asked("apply_to_radius", value, TimeOfNow, out, 0)
    /\ UNCHANGED <<self_vars, changed, until_death, new_vars>>

RoundTripLuminousIntensity ==
    /\ new_pc = "built"
    /\ query.fn = "none"
    /\ LET value == Unwrap(new_args.then.luminous_intensity)
           out == apply_to_luminous_intensity(value, TimeOfNow, 0)
       IN  /\ outcome' = out
           /\ query' = Asked("apply_to_luminous_intensity", value, TimeOfNow, out, 0)
    /\ UNCHANGED <<self_vars, changed, until_death, new_vars>>

RoundTripTemperature ==
    /\ new_pc = "built"
    /\ query.fn = "none"
    /\ LET value == new_args.then.temperature
           out == apply_to_temperature(value, TimeOfNow, 0)
       IN  /\ outcome' = out
           /\ query' = Asked("apply_to_temperature", value, TimeOfNow, out, 0)
    /\ UNCHANGED <<self_vars, changed, until_death, new_vars>>

NextRoundTrip ==
    \/ LifestageNew /\ UNCHANGED <<parsec_vars, params_vars, evolution_vars, stars_vars, draw_vars, caller_vars, life_vars, file_vars, con_vars, angle_vars, history_vars, reach_vars, same_vars>>
    \/ EvolutionNew /\ UNCHANGED <<parsec_vars, params_vars, stars_vars, draw_vars, caller_vars, life_vars, file_vars, con_vars, angle_vars, history_vars, reach_vars, same_vars>>
    \/ RoundTripMass /\ UNCHANGED <<parsec_vars, params_vars, stars_vars, draw_vars, caller_vars, life_vars, file_vars, con_vars, angle_vars, history_vars, reach_vars, same_vars>>
    \/ RoundTripRadius /\ UNCHANGED <<parsec_vars, params_vars, stars_vars, draw_vars, caller_vars, life_vars, file_vars, con_vars, angle_vars, history_vars, reach_vars, same_vars>>
    \/ RoundTripLuminousIntensity /\ UNCHANGED <<parsec_vars, params_vars, stars_vars, draw_vars, caller_vars, life_vars, file_vars, con_vars, angle_vars, history_vars, reach_vars, same_vars>>
    \/ RoundTripTemperature /\ UNCHANGED <<parsec_vars, params_vars, stars_vars, draw_vars, caller_vars, life_vars, file_vars, con_vars, angle_vars, history_vars, reach_vars, same_vars>>

\* The value of the queried property in a sample.
SampleValueOf(fn, sample) ==
    CASE fn = "apply_to_mass" -> sample.mass[1]
      [] fn = "apply_to_radius" -> sample.radius[1]
      [] fn = "apply_to_luminous_intensity" -> sample.luminous_intensity[1]
      [] fn = "apply_to_temperature" -> sample.temperature

\* An interpolating query of the round trip has returned.
RoundTripInterpolated ==
    /\ new_pc = "built"
    /\ query.fn \in ApplyFns
    /\ outcome.branch = "Interpolating"

---------------------------------------------------------------------------
(* generate_random_stars, chunk by chunk.

   A chunk is one call of generate_certain_number_of_random_stars: a
   parallel map of generate_visible_random_star over a range, filtered to the
   draws that returned a star. A chunk is one step here; what it records is
   how many draws it made and how many stars it kept. The truncated expected
   count is an input: the density formula that yields it is floating point. *)

MAX_CHUNKSIZE == 10000000

MaxChunks == 2
MaxCountOffset == 1

\* Values of number_of_stars_in_sphere: around every multiple of the chunk size.
NumbersOfStars ==
    {n \in {k * MAX_CHUNKSIZE + d : k \in 0..MaxChunks,
                                    d \in -MaxCountOffset..MaxCountOffset} : n >= 0}

\* (0..=number): the range the parallel map of a chunk runs over.
DrawsOfChunk(number) == Cardinality(0..number)

\* filter_map keeps the draws that returned a star: some of them, none or all.
KeptOfChunk(number) == {0, 1, DrawsOfChunk(number)}

InitRandomStars ==
    /\ parsec_data \in {"Ok", "Err"}
    /\ mutex_poisoned \in BOOLEAN
    /\ rs_pc = "lock"
    /\ number_of_stars_in_sphere \in NumbersOfStars
    /\ remaining = 0
    /\ stars_len = 0
    /\ chunk_draws = <<>>
    /\ rs_result = "none"

IdleLock ==
    /\ parsec_data = "Ok"
    /\ mutex_poisoned = FALSE

IdleChunks ==
    /\ rs_pc = "idle"
    /\ number_of_stars_in_sphere = 0
    /\ remaining = 0
    /\ stars_len = 0
    /\ chunk_draws = <<>>
    /\ rs_result = "none"

IdleRandomStars == IdleLock /\ IdleChunks

\* PARSEC_DATA.lock() fails on a poisoned mutex: Err(MutexPoison).
LockPoisoned ==
    /\ rs_pc = "lock"
    /\ mutex_poisoned
    /\ rs_result' = "MutexPoison"
    /\ rs_pc' = "done"
    /\ UNCHANGED <<lock_vars, number_of_stars_in_sphere, remaining, stars_len,
                   chunk_draws>>

\* parsec_data_mutex.as_ref()? on a catalog that failed to load.
CatalogError ==
    /\ rs_pc = "lock"
    /\ ~mutex_poisoned
    /\ parsec_data = "Err"
    /\ rs_result' = "ParsecError"
    /\ rs_pc' = "done"
    /\ UNCHANGED <<lock_vars, number_of_stars_in_sphere, remaining, stars_len,
                   chunk_draws>>

\* The catalog is there: remaining = number_of_stars_in_sphere, stars empty.
LockOk ==
    /\ rs_pc = "lock"
    /\ ~mutex_poisoned
    /\ parsec_data = "Ok"
    /\ remaining' = number_of_stars_in_sphere
    /\ stars_len' = 0
    /\ rs_pc' = "while"
    /\ UNCHANGED <<lock_vars, number_of_stars_in_sphere, chunk_draws, rs_result>>

\* One pass of `while remaining > MAX_CHUNKSIZE`.
FullChunk ==
    /\ rs_pc = "while"
    /\ remaining > MAX_CHUNKSIZE
    /\ \E kept \in KeptOfChunk(MAX_CHUNKSIZE) :
           stars_len' = stars_len + kept
    /\ chunk_draws' = Append(chunk_draws, DrawsOfChunk(MAX_CHUNKSIZE))
    /\ remaining' = remaining - MAX_CHUNKSIZE
    /\ UNCHANGED <<lock_vars, rs_pc, number_of_stars_in_sphere, rs_result>>

\* The chunk after the loop, of `remaining` stars, and Ok(stars).
LastChunk ==
    /\ rs_pc = "while"
    /\ ~(remaining > MAX_CHUNKSIZE)
    /\ \E kept \in KeptOfChunk(remaining) :
           stars_len' = stars_len + kept
    /\ chunk_draws' = Append(chunk_draws, DrawsOfChunk(remaining))
    /\ rs_result' = "Ok"
    /\ rs_pc' = "done"
    /\ UNCHANGED <<lock_vars, number_of_stars_in_sphere, remaining>>

NextRandomStars ==
    \/ LockPoisoned /\ UNCHANGED <<parsec_vars, params_vars, evolution_vars, new_vars, draw_vars, caller_vars, life_vars, file_vars, con_vars, angle_vars, history_vars, reach_vars, same_vars>>
    \/ CatalogError /\ UNCHANGED <<parsec_vars, params_vars, evolution_vars, new_vars, draw_vars, caller_vars, life_vars, file_vars, con_vars, angle_vars, history_vars, reach_vars, same_vars>>
    \/ LockOk /\ UNCHANGED <<parsec_vars, params_vars, evolution_vars, new_vars, draw_vars, caller_vars, life_vars, file_vars, con_vars, angle_vars, history_vars, reach_vars, same_vars>>
    \/ FullChunk /\ UNCHANGED <<parsec_vars, params_vars, evolution_vars, new_vars, draw_vars, caller_vars, life_vars, file_vars, con_vars, angle_vars, history_vars, reach_vars, same_vars>>
    \/ LastChunk /\ UNCHANGED <<parsec_vars, params_vars, evolution_vars, new_vars, draw_vars, caller_vars, life_vars, file_vars, con_vars, angle_vars, history_vars, reach_vars, same_vars>>

RECURSIVE SumOf(_)
SumOf(seq) == IF seq = <<>> THEN 0 ELSE Head(seq) + SumOf(Tail(seq))

\* The draws made so far by the call.
TotalDraws == SumOf(chunk_draws)

\* C12: generate_random_stars makes exactly number_of_stars_in_sphere draws
\* in total, in chunks of at most MAX_CHUNKSIZE draws each, and its chunk loop
\* terminates: it never makes more draws than that, every pass of the loop
\* lowers `remaining`, and the call can always go on until it has returned.
C12_ExactlyNDrawsInBoundedChunks ==
    /\ [](rs_result = "Ok" => TotalDraws = number_of_stars_in_sphere)
    /\ [](\A i \in 1..Len(chunk_draws) : chunk_draws[i] <= MAX_CHUNKSIZE)
    /\ [][rs_pc = "while" /\ rs_pc' = "while" => remaining' < remaining]_vars
    /\ [](rs_pc \in {"lock", "while"} => ENABLED <<NextRandomStars>>_vars)

---------------------------------------------------------------------------
(* generate_random_stars and generate_random_star, draw by draw.

   A Distance is a whole number of model units here and a sampled distance a
   whole number of steps, UnitSteps to the unit. The uniform sample `cubed`
   is k^3 / UnitSteps^3 for a k below UnitSteps, so that its cube root is
   exactly k steps of a unit. A luminous intensity is a multiple of the one
   that gives DIMMEST_ILLUMINANCE at one unit of distance; every star of the
   catalog has at least that. The mass index and the age a draw samples only
   pick the snapshot, that is the luminous intensity, which is what a draw
   samples here. The parallel map of a chunk is taken one index at a time:
   the draws share nothing but the catalog, so their order does not matter.
   generate_random_stars is taken for a count that fits the final chunk. *)

UnitSteps == 3
MaxDistance == 2
MaxNumber == 2
MaxLuminousIntensity == 2
MaxDraws == 3

DIMMEST_ILLUMINANCE == 1

Distances == -MaxDistance..MaxDistance
LuminousIntensities == 1..MaxLuminousIntensity

\* Uniform::new(0., 1.), in units of 1 / UnitSteps^3.
CubedValues == {k * k * k : k \in 0..(UnitSteps - 1)}

\* cubed.powf(1. / 3.), in steps.
CubeRoot(cubed) == CHOOSE r \in 0..UnitSteps : r * r * r = cubed

\* (number_of_stars_in_sphere as f64) as usize: nothing for a sphere of no or
\* of negative volume, and otherwise a count that grows with the radius.
NumbersOfStarsFor(distance) ==
    IF distance <= 0 THEN {0} ELSE 0..MaxNumber

\* random_distance, in steps.
random_distance(cubed, max) == max * CubeRoot(cubed)

\* The illuminance of a luminous intensity at a distance in steps reaches
\* DIMMEST_ILLUMINANCE.
IsVisible(luminous_intensity, distance) ==
    luminous_intensity * UnitSteps * UnitSteps
        >= DIMMEST_ILLUMINANCE * distance * distance

\* ParsecData::get_star_data_if_visible.
get_star_data_if_visible(luminous_intensity, distance) ==
    IF IsVisible(luminous_intensity, distance)
    THEN Some([luminous_intensity |-> luminous_intensity, distance |-> distance])
    ELSE None

\* A draw that returns its star without the `?` on the visibility test.
generate_visible_random_star_unchecked(luminous_intensity, cubed, max) ==
    Some([luminous_intensity |-> luminous_intensity,
          distance |-> random_distance(cubed, max)])

\* generate_visible_random_star for the samples it drew.
generate_visible_random_star(luminous_intensity, cubed, max) ==
    LET distance == random_distance(cubed, max)
        data == get_star_data_if_visible(luminous_intensity, distance)
    IN  IF data = None
        THEN None
        ELSE Some([Unwrap(data) EXCEPT !.distance = distance])

\* What a call of generate_visible_random_star leaves in `drawn`.
DrawRecord(luminous_intensity, cubed, max, returned) ==
    [luminous_intensity |-> luminous_intensity,
     cubed |-> cubed,
     max_distance |-> max,
     returned |-> returned]

\* A lock that hands out the catalog whatever its state.
LockAndAsRefUnchecked(poisoned, data) == "Ok"

\* A lock whose caller does not look at the cached Result.
LockAndAsRefPoisonOnly(poisoned, data) ==
    IF poisoned THEN "MutexPoison" ELSE "Ok"

\* PARSEC_DATA.lock().map_err(..)? and then parsec_data_mutex.as_ref()?
LockAndAsRef(poisoned, data) ==
    IF poisoned THEN "MutexPoison"
    ELSE IF data = "Err" THEN "ParsecError"
    ELSE "Ok"

\* max_distance.unwrap_or(Distance { m: 1. })
max_distance_or_1(max) == IF max = None THEN 1 ELSE Unwrap(max)

\* The star generate_random_star hands back, its distance kept in any case.
ReturnedStarKeepingDistance(found, max) == found

\* The star generate_random_star hands back.
ReturnedStar(found, max) ==
    IF max = None THEN [found EXCEPT !.distance = DISTANCE_ZERO] ELSE found

InitDraws ==
    /\ parsec_data \in {"Ok", "Err"}
    /\ mutex_poisoned \in BOOLEAN
    /\ IdleChunks
    /\ gen_fn \in {"generate_random_stars", "generate_random_star"}
    /\ max_distance \in
           {Some(d) : d \in Distances}
               \cup (IF gen_fn = "generate_random_star" THEN {None} ELSE {})
    /\ chunk_number \in (IF gen_fn = "generate_random_stars"
                   THEN NumbersOfStarsFor(Unwrap(max_distance))
                   ELSE {0})
    /\ gen_pc = "lock"
    /\ chunk_index = 0
    /\ drawn = <<>>
    /\ stars = <<>>
    /\ star = None
    /\ gen_result = "none"

IdleDraws ==
    /\ gen_fn = "none"
    /\ gen_pc = "idle"
    /\ max_distance = None
    /\ chunk_number = 0
    /\ chunk_index = 0
    /\ drawn = <<>>
    /\ stars = <<>>
    /\ star = None
    /\ gen_result = "none"

\* Either function returns the error of the lock or of the cached Result.
LockFailed ==
    /\ gen_pc = "lock"
    /\ LockAndAsRef(mutex_poisoned, parsec_data) # "Ok"
    /\ gen_result' = LockAndAsRef(mutex_poisoned, parsec_data)
    /\ gen_pc' = "done"
    /\ UNCHANGED <<gen_fn, max_distance, chunk_number, chunk_index, drawn, stars, star>>

\* generate_random_stars holds the catalog and enters its final chunk.
StarsLocked ==
    /\ gen_pc = "lock"
    /\ gen_fn = "generate_random_stars"
    /\ LockAndAsRef(mutex_poisoned, parsec_data) = "Ok"
    /\ ~(chunk_number > MAX_CHUNKSIZE)
    /\ chunk_index' = 0
    /\ gen_pc' = "chunk"
    /\ UNCHANGED <<gen_fn, max_distance, chunk_number, drawn, stars, star, gen_result>>

\* generate_random_star holds the catalog.
StarLocked ==
    /\ gen_pc = "lock"
    /\ gen_fn = "generate_random_star"
    /\ LockAndAsRef(mutex_poisoned, parsec_data) = "Ok"
    /\ gen_pc' = "first"
    /\ UNCHANGED <<gen_fn, max_distance, chunk_number, chunk_index, drawn, stars, star,
                   gen_result>>

\* One element of (0..=number): a draw, kept by filter_map if it is a star.
ChunkDraw ==
    /\ gen_pc = "chunk"
    /\ chunk_index \in 0..chunk_number
    /\ \E luminous_intensity \in LuminousIntensities, cubed \in CubedValues :
           LET max == Unwrap(max_distance)
               found == generate_visible_random_star(luminous_intensity, cubed, max)
           IN  /\ drawn' = Append(drawn, DrawRecord(luminous_intensity, cubed, max,
                                                    IsSome(found)))
               /\ stars' = IF IsSome(found)
                           THEN Append(stars, [draw |-> Len(drawn) + 1,
                                               data |-> Unwrap(found)])
                           ELSE stars
    /\ chunk_index' = chunk_index + 1
    /\ UNCHANGED <<gen_fn, gen_pc, max_distance, chunk_number, star, gen_result>>

\* The range is used up: collect, extend `stars` and return Ok(stars).
ChunkCollect ==
    /\ gen_pc = "chunk"
    /\ chunk_index \notin 0..chunk_number
    /\ gen_result' = "Ok"
    /\ gen_pc' = "done"
    /\ UNCHANGED <<gen_fn, max_distance, chunk_number, chunk_index, drawn, stars, star>>

\* generate_random_star: what a draw does to `star` and to `drawn`.
DrawForStar ==
    \E luminous_intensity \in LuminousIntensities, cubed \in CubedValues :
        LET max == max_distance_or_1(max_distance)
            found == generate_visible_random_star(luminous_intensity, cubed, max)
        IN  /\ drawn' = Append(drawn, DrawRecord(luminous_intensity, cubed, max,
                                                 IsSome(found)))
            /\ star' = IF IsSome(found)
                       THEN Some([draw |-> Len(drawn) + 1, data |-> Unwrap(found)])
                       ELSE None

\* generate_random_star: the draw before the loop.
FirstDraw ==
    /\ gen_pc = "first"
    /\ DrawForStar
    /\ gen_pc' = "while"
    /\ UNCHANGED <<gen_fn, max_distance, chunk_number, chunk_index, stars, gen_result>>

\* generate_random_star: one pass of `while star.is_none()`.
Redraw ==
    /\ gen_pc = "while"
    /\ star = None
    /\ Len(drawn) < MaxDraws
    /\ DrawForStar
    /\ UNCHANGED <<gen_fn, gen_pc, max_distance, chunk_number, chunk_index, stars, gen_result>>

\* generate_random_star: unwrap, zero the distance if there was no
\* max_distance, return Ok(star).
ReturnStar ==
    /\ gen_pc = "while"
    /\ IsSome(star)
    /\ star' = Some([Unwrap(star) EXCEPT
                        !.data = ReturnedStar(Unwrap(star).data, max_distance)])
    /\ gen_result' = "Ok"
    /\ gen_pc' = "done"
    /\ UNCHANGED <<gen_fn, max_distance, chunk_number, chunk_index, drawn, stars>>

NextDraws ==
    \/ LockFailed /\ UNCHANGED <<parsec_vars, params_vars, evolution_vars, new_vars, stars_vars, caller_vars, life_vars, file_vars, con_vars, angle_vars, history_vars, reach_vars, same_vars>>
    \/ StarsLocked /\ UNCHANGED <<parsec_vars, params_vars, evolution_vars, new_vars, stars_vars, caller_vars, life_vars, file_vars, con_vars, angle_vars, history_vars, reach_vars, same_vars>>
    \/ StarLocked /\ UNCHANGED <<parsec_vars, params_vars, evolution_vars, new_vars, stars_vars, caller_vars, life_vars, file_vars, con_vars, angle_vars, history_vars, reach_vars, same_vars>>
    \/ ChunkDraw /\ UNCHANGED <<parsec_vars, params_vars, evolution_vars, new_vars, stars_vars, caller_vars, life_vars, file_vars, con_vars, angle_vars, history_vars, reach_vars, same_vars>>
    \/ ChunkCollect /\ UNCHANGED <<parsec_vars, params_vars, evolution_vars, new_vars, stars_vars, caller_vars, life_vars, file_vars, con_vars, angle_vars, history_vars, reach_vars, same_vars>>
    \/ FirstDraw /\ UNCHANGED <<parsec_vars, params_vars, evolution_vars, new_vars, stars_vars, caller_vars, life_vars, file_vars, con_vars, angle_vars, history_vars, reach_vars, same_vars>>
    \/ Redraw /\ UNCHANGED <<parsec_vars, params_vars, evolution_vars, new_vars, stars_vars, caller_vars, life_vars, file_vars, con_vars, angle_vars, history_vars, reach_vars, same_vars>>
    \/ ReturnStar /\ UNCHANGED <<parsec_vars, params_vars, evolution_vars, new_vars, stars_vars, caller_vars, life_vars, file_vars, con_vars, angle_vars, history_vars, reach_vars, same_vars>>

\* The draw a collected star came from.
DrawOf(collected) == drawn[collected.draw]

\* C13: every star returned by generate_random_stars(D) has a distance
\* below 1.01 * D, and that distance is D times the cube root of the uniform
\* value in [0, 1) its draw sampled, stored as sampled.
C13_ReturnedWithinMaxDistance ==
    gen_fn = "generate_random_stars" =>
        \A i \in 1..Len(stars) :
            LET D == Unwrap(max_distance)
                distance == stars[i].data.distance
            IN  /\ 100 * distance < 101 * D * UnitSteps
                /\ DrawOf(stars[i]).cubed \in CubedValues
                /\ distance = D * CubeRoot(DrawOf(stars[i]).cubed)

\* The same for the spheres of positive radius only.
C13_WithinPositiveMaxDistance ==
    (gen_fn = "generate_random_stars" /\ Unwrap(max_distance) > 0) =>
        C13_ReturnedWithinMaxDistance

\* The brightness of a draw at its sampled distance reaches the threshold.
Accepted(draw) ==
    IsVisible(draw.luminous_intensity, random_distance(draw.cubed, draw.max_distance))

\* C14: a draw whose brightness at the sampled distance is below
\* DIMMEST_ILLUMINANCE is rejected: every star collected by a chunk and the
\* star of generate_random_star come from an accepted draw, a rejected draw
\* returns no star, and every accepted draw of a chunk is in the chunk's output.
C14_OnlyAndAllAcceptedDraws ==
    /\ \A i \in 1..Len(stars) : Accepted(DrawOf(stars[i]))
    /\ IsSome(star) => Accepted(DrawOf(Unwrap(star)))
    /\ \A i \in 1..Len(drawn) : ~Accepted(drawn[i]) => ~drawn[i].returned
    /\ gen_fn = "generate_random_stars" =>
           \A i \in 1..Len(drawn) :
               Accepted(drawn[i]) => \E j \in 1..Len(stars) : stars[j].draw = i

\* A chunk has returned after draws of both kinds: its output holds a star,
\* and fewer stars than there were draws.
C14_Witness ==
    /\ gen_fn = "generate_random_stars"
    /\ gen_result = "Ok"
    /\ \E i \in 1..Len(drawn) : ~Accepted(drawn[i])
    /\ \E i \in 1..Len(drawn) : Accepted(drawn[i])
    /\ Len(stars) >= 1
    /\ Len(stars) < Len(drawn)

\* generate_random_star has returned Ok(star).
StarReturned ==
    /\ gen_fn = "generate_random_star"
    /\ gen_result = "Ok"

CatalogUnavailable == mutex_poisoned \/ parsec_data = "Err"

\* C16: if the shared catalog is unavailable, generate_random_stars and
\* generate_random_star return an error without any draw: nothing is sampled,
\* no star is produced, and the call returns MutexPoison or the cached error.
C16_NoDrawWithoutCatalog ==
    CatalogUnavailable =>
        /\ drawn = <<>>
        /\ stars = <<>>
        /\ star = None
        /\ gen_pc \in {"lock", "done"}
        /\ gen_pc = "done" =>
               gen_result = (IF mutex_poisoned THEN "MutexPoison" ELSE "ParsecError")

\* generate_random_stars, asked for stars, has returned the cached error.
C16_Witness ==
    /\ gen_fn = "generate_random_stars"
    /\ chunk_number > 0
    /\ parsec_data = "Err"
    /\ gen_pc = "done"
    /\ gen_result = "ParsecError"
    /\ drawn = <<>>

---------------------------------------------------------------------------
(* Concurrent callers of the shared catalog.

   PARSEC_DATA is a value built on first use, a mutex around the Result of
   ParsecData::new. What the callers do with it is the code of
   generate_random_stars and generate_random_star: lock, look at the Result,
   and keep the guard until they return. A caller's sampling is one phase
   here; what it samples is the subject of the machines above. *)

MaxCallers == 2
MaxCalls == 2
MaxContents == 2

Callers == 1..MaxCallers
CatalogContents == 1..MaxContents

\* The value is built by the first caller that uses it, and by nobody after.
NeedsConstruction(data) == data = "Uninit"

\* A guard that is dropped once the Result has been looked at.
HoldsGuardWhileChecking(at) == FALSE

\* parsec_data_mutex, the guard, lives until the function returns.
HoldsGuard(at) == at = "sampling"

\* lock() blocks while another caller holds the guard.
MutexFreeFor(c) == \A other \in Callers \ {c} : ~HoldsGuard(caller_pc[other])

InitCallers ==
    /\ parsec_data = "Uninit"
    /\ mutex_poisoned = FALSE
    /\ caller_pc = [c \in Callers |-> "idle"]
    /\ caller_result = [c \in Callers |-> "none"]
    /\ calls = [c \in Callers |-> 0]
    /\ constructions = 0
    /\ parsec_contents = 0

IdleCallers ==
    /\ caller_pc = <<>>
    /\ caller_result = <<>>
    /\ calls = <<>>
    /\ constructions = 0
    /\ parsec_contents = 0

\* A thread calls generate_random_stars or generate_random_star.
Call(c) ==
    /\ caller_pc[c] = "idle"
    /\ calls[c] < MaxCalls
    /\ calls' = [calls EXCEPT ![c] = @ + 1]
    /\ caller_result' = [caller_result EXCEPT ![c] = "none"]
    /\ caller_pc' = [caller_pc EXCEPT ![c] = "deref"]
    /\ UNCHANGED <<lock_vars, constructions, parsec_contents>>

\* The first use of PARSEC_DATA starts ParsecData::new.
ConstructionBegins(c) ==
    /\ caller_pc[c] = "deref"
    /\ NeedsConstruction(parsec_data)
    /\ parsec_data' = "Building"
    /\ constructions' = constructions + 1
    /\ caller_pc' = [caller_pc EXCEPT ![c] = "new"]
    /\ UNCHANGED <<mutex_poisoned, caller_result, calls, parsec_contents>>

\* ParsecData::new returns: Ok(parsec_data) or an error, kept either way.
ConstructionEnds(c) ==
    /\ caller_pc[c] = "new"
    /\ \/ \E contents \in CatalogContents :
              /\ parsec_data' = "Ok"
              /\ parsec_contents' = contents
       \/ /\ parsec_data' = "Err"
          /\ UNCHANGED parsec_contents
    /\ caller_pc' = [caller_pc EXCEPT ![c] = "lock"]
    /\ UNCHANGED <<mutex_poisoned, caller_result, calls, constructions>>

\* A use of PARSEC_DATA once it is built; while it is being built, a use waits.
AlreadyConstructed(c) ==
    /\ caller_pc[c] = "deref"
    /\ parsec_data \in {"Ok", "Err"}
    /\ caller_pc' = [caller_pc EXCEPT ![c] = "lock"]
    /\ UNCHANGED <<lock_vars, caller_result, calls, constructions, parsec_contents>>

\* lock() and as_ref()? end the call with an error; the guard is dropped.
LockReturnsError(c) ==
    /\ caller_pc[c] = "lock"
    /\ MutexFreeFor(c)
    /\ LockAndAsRef(mutex_poisoned, parsec_data) # "Ok"
    /\ caller_result' =
           [caller_result EXCEPT ![c] = LockAndAsRef(mutex_poisoned, parsec_data)]
    /\ caller_pc' = [caller_pc EXCEPT ![c] = "idle"]
    /\ UNCHANGED <<lock_vars, calls, constructions, parsec_contents>>

\* lock() and as_ref()? hand out the catalog: the caller starts to sample.
LockThenSample(c) ==
    /\ caller_pc[c] = "lock"
    /\ MutexFreeFor(c)
    /\ LockAndAsRef(mutex_poisoned, parsec_data) = "Ok"
    /\ caller_pc' = [caller_pc EXCEPT ![c] = "sampling"]
    /\ UNCHANGED <<lock_vars, caller_result, calls, constructions, parsec_contents>>

\* The caller returns Ok(..) and the guard goes out of scope.
SamplingReturns(c) ==
    /\ caller_pc[c] = "sampling"
    /\ caller_result' = [caller_result EXCEPT ![c] = "Ok"]
    /\ caller_pc' = [caller_pc EXCEPT ![c] = "idle"]
    /\ UNCHANGED <<lock_vars, calls, constructions, parsec_contents>>

NextCallers ==
    \/ \E c \in Callers : Call(c)
         /\ UNCHANGED <<parsec_vars, params_vars, evolution_vars, new_vars, chunk_vars, draw_vars, life_vars, file_vars, con_vars, angle_vars, history_vars, reach_vars, same_vars>>
    \/ \E c \in Callers : ConstructionBegins(c)
         /\ UNCHANGED <<parsec_vars, params_vars, evolution_vars, new_vars, chunk_vars, draw_vars, life_vars, file_vars, con_vars, angle_vars, history_vars, reach_vars, same_vars>>
    \/ \E c \in Callers : ConstructionEnds(c)
         /\ UNCHANGED <<parsec_vars, params_vars, evolution_vars, new_vars, chunk_vars, draw_vars, life_vars, file_vars, con_vars, angle_vars, history_vars, reach_vars, same_vars>>
    \/ \E c \in Callers : AlreadyConstructed(c)
         /\ UNCHANGED <<parsec_vars, params_vars, evolution_vars, new_vars, chunk_vars, draw_vars, life_vars, file_vars, con_vars, angle_vars, history_vars, reach_vars, same_vars>>
    \/ \E c \in Callers : LockReturnsError(c)
         /\ UNCHANGED <<parsec_vars, params_vars, evolution_vars, new_vars, chunk_vars, draw_vars, life_vars, file_vars, con_vars, angle_vars, history_vars, reach_vars, same_vars>>
    \/ \E c \in Callers : LockThenSample(c)
         /\ UNCHANGED <<parsec_vars, params_vars, evolution_vars, new_vars, chunk_vars, draw_vars, life_vars, file_vars, con_vars, angle_vars, history_vars, reach_vars, same_vars>>
    \/ \E c \in Callers : SamplingReturns(c)
         /\ UNCHANGED <<parsec_vars, params_vars, evolution_vars, new_vars, chunk_vars, draw_vars, life_vars, file_vars, con_vars, angle_vars, history_vars, reach_vars, same_vars>>

\* C17: the shared catalog is constructed at most once: after a failed
\* construction the cached error stays, every call that returns returns it,
\* and nobody constructs again; after a successful construction no step
\* changes the catalog or what it holds.
C17_ConstructedAtMostOnce ==
    /\ [](constructions <= 1)
    /\ [][parsec_data = "Err" => parsec_data' = "Err" /\ constructions' = constructions]_vars
    /\ [](parsec_data = "Err" =>
            \A c \in Callers : caller_result[c] \in {"none", "ParsecError"})
    /\ [][parsec_data = "Ok" =>
            /\ parsec_data' = "Ok"
            /\ parsec_contents' = parsec_contents
            /\ constructions' = constructions]_vars

\* After a failed construction two callers have each made all their calls and
\* hold the cached error.
C17_Witness ==
    /\ parsec_data = "Err"
    /\ constructions = 1
    /\ \A c \in Callers :
           /\ calls[c] = MaxCalls
           /\ caller_pc[c] = "idle"
           /\ caller_result[c] = "ParsecError"

\* The catalog has been constructed, with or without success.
Constructed == parsec_data \in {"Ok", "Err"}

\* C18 as stated: once the catalog is constructed its readers take no lock
\* that keeps another out: a caller that has reached lock() is never kept
\* waiting, so that two calls can be in their sampling phase together.
C18_ReadersNeverWait ==
    \A c \in Callers :
        (Constructed /\ caller_pc[c] = "lock") => MutexFreeFor(c)

\* C18, amended: every call locks PARSEC_DATA and keeps the guard until it
\* returns, so at most one call is in its sampling phase at a time, and a
\* caller that reaches lock() meanwhile stays there until that call returns.
C18_OneSamplerAtATime ==
    /\ [](\A c, d \in Callers :
            (caller_pc[c] = "sampling" /\ caller_pc[d] = "sampling") => c = d)
    /\ [][\A c \in Callers :
            (caller_pc[c] = "lock" /\ ~MutexFreeFor(c)) => caller_pc'[c] = "lock"]_vars

\* With the catalog loaded, one caller samples and another waits at lock().
C18_Witness ==
    /\ parsec_data = "Ok"
    /\ \E c, d \in Callers :
           /\ caller_pc[c] = "sampling"
           /\ caller_pc[d] = "lock"
           /\ ~MutexFreeFor(d)

---------------------------------------------------------------------------
(* ParsecData::get_life_expectancy_in_years

   An age in years is written in two limbs, hi * Limb + lo with lo below
   Limb, so that ages on both sides of 2^32 = Limb * Limb can be told apart;
   `frac` says whether the age has a fractional part. A u32 is such a number
   with hi below Limb and no fractional part. *)

Limb == 256 * 256

MaxLimbOffset == 1
MaxLifeTrajectoryLen == 2

\* u32::MAX
U32Max == [hi |-> Limb - 1, lo |-> Limb - 1, frac |-> FALSE]

\* The ages a line can hold, from 0 to beyond 2^32 years.
LineAges ==
    [hi : (0..MaxLimbOffset) \cup {Limb + d : d \in -MaxLimbOffset..MaxLimbOffset},
     lo : (0..MaxLimbOffset) \cup {Limb - 1},
     frac : BOOLEAN]

LifeTrajectories == UNION {[1..n -> LineAges] : n \in 1..MaxLifeTrajectoryLen}

\* `age as u32`: the fractional part is dropped and what lies above u32::MAX
\* becomes u32::MAX.
AsU32(line_age) ==
    IF line_age.hi >= Limb
    THEN U32Max
    ELSE [line_age EXCEPT !.frac = FALSE]

\* trajectory.last().unwrap().age as u32
get_life_expectancy_in_years(t) == AsU32(t[Len(t)])

InitLife ==
    /\ life_trajectory \in LifeTrajectories
    /\ life_pc = "call"
    /\ life_expectancy = None

IdleLife ==
    /\ life_trajectory = <<>>
    /\ life_pc = "idle"
    /\ life_expectancy = None

GetLifeExpectancy ==
    /\ life_pc = "call"
    /\ life_expectancy' = Some(get_life_expectancy_in_years(life_trajectory))
    /\ life_pc' = "done"
    /\ UNCHANGED life_trajectory

NextLife ==
    \/ GetLifeExpectancy
         /\ UNCHANGED <<parsec_vars, params_vars, evolution_vars, new_vars, stars_vars,
                        draw_vars, caller_vars, file_vars, con_vars, angle_vars, history_vars, reach_vars, same_vars>>

\* The whole years of an age.
WholeYears(line_age) == [line_age EXCEPT !.frac = FALSE]

\* C19: for every non-empty trajectory get_life_expectancy_in_years returns
\* the age in whole years of the last line, whatever that age, also at and
\* above 2^32 years.
C19_LifeExpectancyIsLastAge ==
    life_pc = "done" =>
        Unwrap(life_expectancy)
            = WholeYears(life_trajectory[Len(life_trajectory)])

\* The same for the ages below 2^32 years only.
C19_BelowU32Max ==
    (life_pc = "done" /\ life_trajectory[Len(life_trajectory)].hi < Limb) =>
        C19_LifeExpectancyIsLastAge

---------------------------------------------------------------------------
(* ParsecData::read_file and ParsecData::read_line

   A row of the file is what read_line makes of it: how many fields the
   split yields, whether the field at MASS_INDEX parses and to which mass,
   and whether the fields for age, log_l, log_te and log_r all parse. A
   pushed line remembers the row it came from. The build is taken for one
   file of the directory. *)

MASS_INDEX == 1
AGE_INDEX == 2
LOG_R_INDEX == 5

MaxRows == 3
MaxRowMassIndex == 1

\* The masses written in the rows: grid masses of neighbouring slots.
RowMasses == {SORTED_MASSES[i] : i \in 0..MaxRowMassIndex}

\* entries.len(): a row without the mass field, without the age field,
\* without the log_r field, and a row with every field.
FieldCounts == {MASS_INDEX, AGE_INDEX, LOG_R_INDEX, LOG_R_INDEX + 1}

Rows ==
    {r \in [fields : FieldCounts,
            mass : {None} \cup {Some(m) : m \in RowMasses},
            rest_parses : BOOLEAN] :
        /\ r.fields <= MASS_INDEX => r.mass = None
        /\ r.fields <= LOG_R_INDEX => ~r.rest_parses}

Files == UNION {[1..n -> Rows] : n \in 0..MaxRows}

\* The binary search of get_closest_mass_index from the bounds lo and hi on.
RECURSIVE SearchFrom(_, _, _)
SearchFrom(m, lo, hi) ==
    IF hi - lo > 1
    THEN IF GoesUp(m, MidIndex(lo, hi))
         THEN SearchFrom(m, MidIndex(lo, hi), hi)
         ELSE SearchFrom(m, lo, MidIndex(lo, hi))
    ELSE ClosestOfPair(m, lo, hi)

\* ParsecData::get_closest_mass_index, as a function of its argument.
get_closest_mass_index(m) == SearchFrom(m, 0, SortedMassesLen - 1)

\* A slot that follows the mass of every row.
MassPositionOfEachRow(row, position) ==
    IF IsSome(row.mass) THEN Some(get_closest_mass_index(Unwrap(row.mass)))
    ELSE position

\* if mass_position.is_none() { if let Ok(mass_value) = .. { *mass_position = .. } }
MassPositionAfter(row, position) ==
    IF position = None /\ IsSome(row.mass)
    THEN Some(get_closest_mass_index(Unwrap(row.mass)))
    ELSE position

\* A row that is checked for fields it does not need.
LacksAFieldAnywhere(row, position) == row.fields <= LOG_R_INDEX

\* One of entries.get(..).ok_or(ParsecDataNotAvailable)? fails: the one for
\* the mass, or, once there is a slot, one of the four after it.
LacksAField(row, position) ==
    \/ row.fields <= MASS_INDEX
    \/ /\ IsSome(position)
       /\ row.fields <= LOG_R_INDEX

\* A row whose fields are pushed as they are.
AllParseOrNot(row) == TRUE

\* if let (Ok(mass), Ok(age), Ok(log_l), Ok(log_te), Ok(log_r)) = ..
AllParse(row) == IsSome(row.mass) /\ row.rest_parses

\* read_line for row number i: the result, the slot and the data after it.
read_line(row, i, position, lines) ==
    LET after == IF row.fields <= MASS_INDEX THEN position
                 ELSE MassPositionAfter(row, position)
    IN  IF LacksAField(row, after)
        THEN [result |-> "ParsecDataNotAvailable", mass_position |-> after,
              data |-> lines]
        ELSE IF IsSome(after) /\ AllParse(row)
        THEN [result |-> "Ok", mass_position |-> after,
              data |-> [lines EXCEPT ![Unwrap(after)] =
                           Append(@, [row |-> i, mass |-> row.mass])]]
        ELSE [result |-> "Ok", mass_position |-> after, data |-> lines]

\* ParsecData::new has pushed an empty trajectory per grid mass; read_file
\* has opened the file.
InitReadFile ==
    /\ file_rows \in Files
    /\ line_no = 0
    /\ mass_position = None
    /\ catalog_data = [i \in GridIndices |-> <<>>]
    /\ build_result = "none"

IdleReadFile ==
    /\ file_rows = <<>>
    /\ line_no = 0
    /\ mass_position = None
    /\ catalog_data = <<>>
    /\ build_result = "idle"

\* One pass of `for line in reader.lines()`: read_line, and its `?`.
ReadLine ==
    /\ build_result = "none"
    /\ line_no < Len(file_rows)
    /\ LET read == read_line(file_rows[line_no + 1], line_no + 1, mass_position, catalog_data)
       IN  /\ mass_position' = read.mass_position
           /\ catalog_data' = read.data
           /\ build_result' = IF read.result = "Ok" THEN "none" ELSE read.result
    /\ line_no' = line_no + 1
    /\ UNCHANGED file_rows

\* The file is used up: read_file returns Ok(()), new returns Ok(parsec_data).
EndOfFile ==
    /\ build_result = "none"
    /\ line_no = Len(file_rows)
    /\ build_result' = "Ok"
    /\ UNCHANGED <<file_rows, line_no, mass_position, catalog_data>>

NextReadFile ==
    \/ ReadLine
         /\ UNCHANGED <<parsec_vars, params_vars, evolution_vars, new_vars, stars_vars,
                        draw_vars, caller_vars, life_vars, con_vars, angle_vars, history_vars, reach_vars, same_vars>>
    \/ EndOfFile
         /\ UNCHANGED <<parsec_vars, params_vars, evolution_vars, new_vars, stars_vars,
                        draw_vars, caller_vars, life_vars, con_vars, angle_vars, history_vars, reach_vars, same_vars>>

\* The rows read so far whose mass field parses.
RowsWithMass == {i \in 1..line_no : IsSome(file_rows[i].mass)}

\* The first of them.
FirstRowWithMass == CHOOSE i \in RowsWithMass : \A j \in RowsWithMass : i <= j

\* The rows read so far that read_line accepts: every field is there and
\* parses, and the slot is known by then.
AcceptedRows ==
    {i \in 1..line_no :
        /\ file_rows[i].fields > LOG_R_INDEX
        /\ IsSome(file_rows[i].mass)
        /\ file_rows[i].rest_parses}

\* C21: the slot of a file is fixed once, by get_closest_mass_index of the
\* first mass of the file that parses; every row accepted from then on is
\* pushed, in file order, to the trajectory of that slot, whatever its own
\* mass, and no other slot receives a row of the file.
C21_OneSlotPerFile ==
    /\ [][IsSome(mass_position) => mass_position' = mass_position]_vars
    /\ [](build_result # "idle" =>
            /\ IsSome(mass_position) <=> RowsWithMass # {}
            /\ IsSome(mass_position) =>
                   LET slot == Unwrap(mass_position)
                   IN  /\ slot = get_closest_mass_index(
                                     Unwrap(file_rows[FirstRowWithMass].mass))
                       /\ {catalog_data[slot][k].row : k \in 1..Len(catalog_data[slot])} = AcceptedRows
                       /\ \A k \in 1..(Len(catalog_data[slot]) - 1) :
                              catalog_data[slot][k].row < catalog_data[slot][k + 1].row
                       /\ \A k \in 1..Len(catalog_data[slot]) :
                              catalog_data[slot][k].mass = file_rows[catalog_data[slot][k].row].mass
            /\ \A i \in GridIndices :
                   Some(i) # mass_position => catalog_data[i] = <<>>)

\* The file has been read; the second line of its slot came from a row whose
\* own mass is nearest another slot.
C21_Witness ==
    /\ build_result = "Ok"
    /\ IsSome(mass_position)
    /\ Len(catalog_data[Unwrap(mass_position)]) >= 2
    /\ get_closest_mass_index(Unwrap(catalog_data[Unwrap(mass_position)][2].mass))
           # Unwrap(mass_position)

\* The build has failed with the error of a missing field.
BuildFailed == build_result = "ParsecDataNotAvailable"

FailingRow(i) ==
    \/ file_rows[i].fields <= MASS_INDEX
    \/ /\ file_rows[i].fields <= LOG_R_INDEX
       /\ \E j \in 1..i : IsSome(file_rows[j].mass)

UnparsableRow(i) ==
    /\ file_rows[i].fields > LOG_R_INDEX
    /\ ~(IsSome(file_rows[i].mass) /\ file_rows[i].rest_parses)

\* C23: a row that has every required field, one of which does not parse,
\* is skipped: reading it raises no error and leaves every trajectory as it
\* was, the read goes on with the next row, and the rows accepted after it
\* are pushed.
C23_UnparsableRowSkipped ==
    /\ [][(build_result = "none" /\ line_no < Len(file_rows)
              /\ UnparsableRow(line_no + 1)) =>
            /\ catalog_data' = catalog_data
            /\ build_result' = "none"
            /\ line_no' = line_no + 1]_vars
    /\ [](\A i \in AcceptedRows :
            (\E j \in 1..(i - 1) : UnparsableRow(j)) =>
                \E slot \in GridIndices :
                    \E k \in 1..Len(catalog_data[slot]) :
                        catalog_data[slot][k].row = i)

\* The file has been read: its first row had a mass and a field that does
\* not parse, its second row is the only line of the slot.
C23_Witness ==
    /\ build_result = "Ok"
    /\ Len(file_rows) >= 2
    /\ UnparsableRow(1)
    /\ IsSome(file_rows[1].mass)
    /\ IsSome(mass_position)
    /\ Len(catalog_data[Unwrap(mass_position)]) = 1
    /\ catalog_data[Unwrap(mass_position)][1].row = 2

---------------------------------------------------------------------------
(* Constellation connections: collect_connections, minimum_spanning_tree

   A star is its longitude on the ecliptic, a whole number of hundredths of
   a degree, and an angle is a whole number of hundredths of a degree.     *)

\* FULL_CIRC, 2 pi, in hundredths of a degree
FULL_CIRC == 36000

\* The longest line of stars, the largest number of stars placed freely, and
\* the largest longitude of a freely placed star, in steps of 60 degrees.
MaxLineSize == 9
MaxStars == 4
MaxLongitudeIndex == 5

Longitudes == {6000 * k : k \in 0..MaxLongitudeIndex}

\* tests::stars_in_line: star i at 10 * i + i^2 / 100 degrees
stars_in_line(size) == [i \in 1..size |-> 1000 * (i - 1) + (i - 1) * (i - 1)]

StarLists ==
    {stars_in_line(size) : size \in 0..MaxLineSize}
    \cup UNION {[1..n -> Longitudes] : n \in 0..MaxStars}

\* get_pos().angle_to(..): the angle between two directions, at most half a
\* circle
angle_to(a, b) ==
    LET d == Abs(a - b) % FULL_CIRC
    IN  IF 2 * d > FULL_CIRC THEN FULL_CIRC - d ELSE d

\* Connection::new; the stars are counted from 0 as in the source
Connection(from, to, ss) ==
    [from |-> from, to |-> to, distance |-> angle_to(ss[from + 1], ss[to + 1])]

connects_to(c, i) == c.from = i \/ c.to = i

other_end(c, i) == IF c.from = i THEN c.to ELSE c.from

\* impl PartialEq for Connection, and Vec::contains with it
ConnectionEq(a, b) ==
    \/ a.from = b.from /\ a.to = b.to
    \/ a.from = b.to /\ a.to = b.from

Contains(connections, c) ==
    \E k \in 1..Len(connections) : ConnectionEq(connections[k], c)

\* sort_by(|a, b| a.distance.partial_cmp(&b.distance)..): a stable sort
RECURSIVE sort_by_distance(_)
sort_by_distance(unsorted) ==
    IF unsorted = <<>>
    THEN <<>>
    ELSE LET sorted == sort_by_distance(SubSeq(unsorted, 1, Len(unsorted) - 1))
             last == unsorted[Len(unsorted)]
             k == Cardinality({i \in 1..Len(sorted) :
                                   sorted[i].distance <= last.distance})
         IN  SubSeq(sorted, 1, k) \o <<last>> \o SubSeq(sorted, k + 1, Len(sorted))

\* for i in 0..stars.len() { for j in i + 1..stars.len() { push } }
RECURSIVE ConnectionsFrom(_, _, _)
ConnectionsFrom(i, j, ss) ==
    IF i >= Len(ss)
    THEN <<>>
    ELSE IF j >= Len(ss)
    THEN ConnectionsFrom(i + 1, i + 2, ss)
    ELSE <<Connection(i, j, ss)>> \o ConnectionsFrom(i, j + 1, ss)

sorted_connections(ss) == sort_by_distance(ConnectionsFrom(0, 1, ss))

\* The other stars in the order of their distance from star i
nearest_neighbours(i, ss) ==
    LET others == SelectSeq([j \in 1..Len(ss) |-> j - 1], LAMBDA j : j # i)
        sorted == sort_by_distance(
                      [k \in 1..Len(others) |->
                          [star |-> others[k],
                           distance |-> angle_to(ss[i + 1], ss[others[k] + 1])]])
    IN  [k \in 1..Len(sorted) |-> sorted[k].star]

all_nearest_neighbours(ss) == [i \in 1..Len(ss) |-> nearest_neighbours(i - 1, ss)]

\* .iter().position(|&i| i == end).unwrap_or(0) + 1
get_max_allowed_steps(end, neighbours) ==
    LET found == {k \in 1..Len(neighbours) : neighbours[k] = end}
        position == IF found = {}
                    THEN 0
                    ELSE (CHOOSE k \in found : \A l \in found : k <= l) - 1
    IN  position + 1

\* if max_steps == 0 && start != end { return false; }
GivesUpAtZeroSteps(start, end, max_steps) == max_steps = 0 /\ start # end

\* is_reachable_within: "true", "false", or "underflow" when max_steps - 1
\* is computed with max_steps at 0
RECURSIVE is_reachable_within(_, _, _, _)
RECURSIVE ForConnection(_, _, _, _, _)
ForConnection(k, start, end, max_steps, connections) ==
    IF k > Len(connections)
    THEN "false"
    ELSE LET c == connections[k]
         IN  IF ~connects_to(c, start)
             THEN ForConnection(k + 1, start, end, max_steps, connections)
             ELSE IF connects_to(c, end)
             THEN "true"
             ELSE IF max_steps = 0
             THEN "underflow"
             ELSE LET sub == is_reachable_within(other_end(c, start), end,
                                                 max_steps - 1, connections)
                  IN  IF sub = "false"
                      THEN ForConnection(k + 1, start, end, max_steps, connections)
                      ELSE sub

is_reachable_within(start, end, max_steps, connections) ==
    IF GivesUpAtZeroSteps(start, end, max_steps)
    THEN "false"
    ELSE ForConnection(1, start, end, max_steps, connections)

\* One pass of the loop of collect_connections over `connection`
CollectOne(connection, connections, ss) ==
    IF Contains(connections, connection)
    THEN connections
    ELSE LET start == connection.from
             end == connection.to
             max_steps == get_max_allowed_steps(
                              end, all_nearest_neighbours(ss)[connection.from + 1])
         IN  IF is_reachable_within(start, end, max_steps, connections) = "true"
             THEN Append(connections, connection)
             ELSE connections

\* if distance < nn_distance { nearest_neighbour = Some(j); }
IsFarther(distance, nn_distance) == distance > nn_distance
IsNearer(distance, nn_distance) == distance < nn_distance

RECURSIVE NearestFrom(_, _, _, _, _)
NearestFrom(j, nearest_neighbour, index_of_star, ss, excluding) ==
    IF j >= Len(ss)
    THEN nearest_neighbour
    ELSE LET pos == ss[index_of_star + 1]
             skipped == \/ index_of_star = j
                        \/ \E k \in 1..Len(excluding) : excluding[k] = j
             distance == angle_to(ss[j + 1], pos)
             next == IF skipped
                     THEN nearest_neighbour
                     ELSE IF IsSome(nearest_neighbour)
                     THEN IF IsNearer(distance,
                                      angle_to(ss[Unwrap(nearest_neighbour) + 1], pos))
                          THEN Some(j)
                          ELSE nearest_neighbour
                     ELSE Some(j)
         IN  \* `next` is worked out once and handed on as a value
             CHOOSE found \in {NearestFrom(j + 1, n, index_of_star, ss, excluding) :
                                   n \in {next}} : TRUE

find_nearest_neighbour(index_of_star, ss, excluding) ==
    NearestFrom(0, None, index_of_star, ss, excluding)

\* for i in &visited { .. if connection.distance < current_best.distance ..}
RECURSIVE BestFrom(_, _, _, _)
BestFrom(k, current_best, ss, seen) ==
    IF k > Len(seen)
    THEN current_best
    ELSE LET nn == find_nearest_neighbour(seen[k], ss, seen)
             connection == Connection(seen[k], Unwrap(nn), ss)
             next == IF IsSome(nn) /\ connection.distance < current_best.distance
                     THEN connection
                     ELSE current_best
         IN  CHOOSE best \in {BestFrom(k + 1, b, ss, seen) : b \in {next}} : TRUE

\* One pass of the while loop of minimum_spanning_tree
CurrentBest(ss, seen) ==
    BestFrom(1, [to |-> 0, from |-> 0, distance |-> FULL_CIRC], ss, seen)

InitConstellation ==
    /\ con_stars \in StarLists
    /\ con_fn \in {"collect_connections", "minimum_spanning_tree"}
    /\ con_pc = "call"
    /\ con_todo = <<>>
    /\ visited = <<>>
    /\ con_result = <<>>

InitCollect == InitConstellation /\ con_fn = "collect_connections"

\* minimum_spanning_tree is followed for up to MaxStars stars
InitSpanningTree ==
    /\ InitConstellation
    /\ con_fn = "minimum_spanning_tree"
    /\ Len(con_stars) <= MaxStars

IdleConstellation ==
    /\ con_stars = <<>>
    /\ con_fn = "none"
    /\ con_pc = "idle"
    /\ con_todo = <<>>
    /\ visited = <<>>
    /\ con_result = <<>>

\* collect_connections up to its loop
CollectCall ==
    /\ con_fn = "collect_connections"
    /\ con_pc = "call"
    /\ con_todo' = sorted_connections(con_stars)
    /\ con_pc' = "for"
    /\ UNCHANGED <<con_stars, con_fn, visited, con_result>>

CollectFor ==
    /\ con_fn = "collect_connections"
    /\ con_pc = "for"
    /\ con_todo # <<>>
    /\ con_result' = CollectOne(Head(con_todo), con_result, con_stars)
    /\ con_todo' = Tail(con_todo)
    /\ UNCHANGED <<con_stars, con_fn, con_pc, visited>>

CollectReturn ==
    /\ con_fn = "collect_connections"
    /\ con_pc = "for"
    /\ con_todo = <<>>
    /\ con_pc' = "done"
    /\ UNCHANGED <<con_stars, con_fn, con_todo, visited, con_result>>

NextCollect ==
    \/ CollectCall /\ UNCHANGED <<parsec_vars, params_vars, evolution_vars, new_vars, stars_vars, draw_vars, caller_vars, life_vars, file_vars, angle_vars, history_vars, reach_vars, same_vars>>
    \/ CollectFor /\ UNCHANGED <<parsec_vars, params_vars, evolution_vars, new_vars, stars_vars, draw_vars, caller_vars, life_vars, file_vars, angle_vars, history_vars, reach_vars, same_vars>>
    \/ CollectReturn /\ UNCHANGED <<parsec_vars, params_vars, evolution_vars, new_vars, stars_vars, draw_vars, caller_vars, life_vars, file_vars, angle_vars, history_vars, reach_vars, same_vars>>

\* if stars.len() < 2 { return connections; }
SpanningTreeOfFewStars ==
    /\ con_fn = "minimum_spanning_tree"
    /\ con_pc = "call"
    /\ Len(con_stars) < 2
    /\ con_pc' = "done"
    /\ UNCHANGED <<con_stars, con_fn, con_todo, visited, con_result>>

\* let mut visited = vec![0];
SpanningTreeCall ==
    /\ con_fn = "minimum_spanning_tree"
    /\ con_pc = "call"
    /\ Len(con_stars) >= 2
    /\ visited' = <<0>>
    /\ con_pc' = "while"
    /\ UNCHANGED <<con_stars, con_fn, con_todo, con_result>>

SpanningTreeWhile ==
    /\ con_fn = "minimum_spanning_tree"
    /\ con_pc = "while"
    /\ Len(visited) < Len(con_stars)
    /\ LET current_best == CurrentBest(con_stars, visited)
       IN  /\ visited' = Append(visited, current_best.to)
           /\ con_result' = Append(con_result, current_best)
    /\ UNCHANGED <<con_stars, con_fn, con_pc, con_todo>>

SpanningTreeReturn ==
    /\ con_fn = "minimum_spanning_tree"
    /\ con_pc = "while"
    /\ Len(visited) >= Len(con_stars)
    /\ con_pc' = "done"
    /\ UNCHANGED <<con_stars, con_fn, con_todo, visited, con_result>>

NextSpanningTree ==
    \/ SpanningTreeOfFewStars /\ UNCHANGED <<parsec_vars, params_vars, evolution_vars, new_vars, stars_vars, draw_vars, caller_vars, life_vars, file_vars, angle_vars, history_vars, reach_vars, same_vars>>
    \/ SpanningTreeCall /\ UNCHANGED <<parsec_vars, params_vars, evolution_vars, new_vars, stars_vars, draw_vars, caller_vars, life_vars, file_vars, angle_vars, history_vars, reach_vars, same_vars>>
    \/ SpanningTreeWhile /\ UNCHANGED <<parsec_vars, params_vars, evolution_vars, new_vars, stars_vars, draw_vars, caller_vars, life_vars, file_vars, angle_vars, history_vars, reach_vars, same_vars>>
    \/ SpanningTreeReturn /\ UNCHANGED <<parsec_vars, params_vars, evolution_vars, new_vars, stars_vars, draw_vars, caller_vars, life_vars, file_vars, angle_vars, history_vars, reach_vars, same_vars>>

\* Stars on a line, as stars_in_line places them: the longitudes increase,
\* each spacing is greater than the one before, and the line stays within
\* 179 degrees.
IsLine(ss) ==
    /\ \A i \in 1..(Len(ss) - 1) : ss[i] < ss[i + 1]
    /\ \A i \in 1..(Len(ss) - 2) : ss[i + 1] - ss[i] < ss[i + 2] - ss[i + 1]
    /\ \A i \in 1..Len(ss) : 0 <= ss[i] /\ ss[i] < 17900

\* C24: for n stars on a line with strictly increasing spacings, n from 1 to
\* 9, collect_connections returns exactly n - 1 connections, and the i-th of
\* them joins star i and star i + 1.
C24_LineIsConnectedInOrder ==
    (/\ con_fn = "collect_connections"
     /\ con_pc = "done"
     /\ Len(con_stars) \in 1..9
     /\ IsLine(con_stars)) =>
        /\ Len(con_result) = Len(con_stars) - 1
        /\ \A i \in 0..(Len(con_stars) - 2) :
              /\ i + 1 <= Len(con_result)
              /\ con_result[i + 1].from = i
              /\ con_result[i + 1].to = i + 1

\* What collect_connections returns as it stands: nothing, for any stars.
C24_NothingIsCollected ==
    (con_fn = "collect_connections" /\ con_pc = "done") => con_result = <<>>

---------------------------------------------------------------------------
(* Angle::normalize

   An angle is a whole number of quarters of pi.                           *)

\* crate::PI and crate::TWO_PI, in quarters of pi
PI == 4
TWO_PI == 8

\* The largest |radian| normalized
MaxRadian == 20

Radians == -MaxRadian..MaxRadian

Normalizations == {"ZeroToTwoPi", "MinusPiToPi", "MinusPiHalfToPiHalf"}

\* The % of two floats: the remainder has the sign of the dividend
Rem(a, b) == IF a >= 0 THEN a % b ELSE -((-a) % b)

\* if self.radian > PI, and its like for the half circle
IsAbove(r, upper) == r > upper

normalize(r, to) ==
    CASE to = "ZeroToTwoPi" ->
             LET rem == Rem(r, TWO_PI)
             IN  IF rem < 0 THEN rem + TWO_PI ELSE rem
      [] to = "MinusPiToPi" ->
             LET rem == Rem(r, TWO_PI)
             IN  IF IsAbove(rem, PI) THEN rem - TWO_PI
                 ELSE IF rem < -PI THEN rem + TWO_PI
                 ELSE rem
      [] to = "MinusPiHalfToPiHalf" ->
             LET rem == Rem(r, PI)
             IN  IF IsAbove(rem, PI \div 2) THEN rem - PI
                 ELSE IF rem < -(PI \div 2) THEN rem + PI
                 ELSE rem

InitAngle ==
    /\ angle_input \in Radians
    /\ normalization \in Normalizations
    /\ angle_pc = "call"
    /\ radian = angle_input

IdleAngle ==
    /\ angle_input = 0
    /\ normalization = "ZeroToTwoPi"
    /\ angle_pc = "idle"
    /\ radian = 0

Normalize ==
    /\ angle_pc = "call"
    /\ radian' = normalize(radian, normalization)
    /\ angle_pc' = "done"
    /\ UNCHANGED <<angle_input, normalization>>

NextAngle ==
    \/ Normalize /\ UNCHANGED <<parsec_vars, params_vars, evolution_vars, new_vars, stars_vars, draw_vars, caller_vars, life_vars, file_vars, con_vars, history_vars, reach_vars, same_vars>>

\* The target range of a normalization: its lower end and its length
LowerEnd(to) ==
    CASE to = "ZeroToTwoPi" -> 0
      [] to = "MinusPiToPi" -> -PI
      [] to = "MinusPiHalfToPiHalf" -> -(PI \div 2)

Period(to) == IF to = "MinusPiHalfToPiHalf" THEN PI ELSE TWO_PI

\* C25: after Angle::normalize the angle lies in the half-open target range,
\* [0, 2 pi), [-pi, pi) or [-pi/2, pi/2), for every input angle, odd
\* multiples of pi (of pi/2) and negative angles among them.
C25_NormalizedIntoHalfOpenRange ==
    angle_pc = "done" =>
        /\ LowerEnd(normalization) <= radian
        /\ radian < LowerEnd(normalization) + Period(normalization)

\* What normalize does keep: the angle ends in the closed range, and it
\* differs from the input by a whole number of periods.
C25_NormalizedIntoClosedRange ==
    angle_pc = "done" =>
        /\ LowerEnd(normalization) <= radian
        /\ radian <= LowerEnd(normalization) + Period(normalization)
        /\ (radian - angle_input) % Period(normalization) = 0

\* C29: if the star is alive at `then` and dead at `now`, has_changed(then,
\* now) returns true, whatever the step now - then and with or without
\* lifestage rates, so that a caller polling with increasing times never
\* steps over the death unnoticed.
C29_DeathNeverSteppedOver ==
    (/\ query.fn = "has_changed"
     /\ IsSome(age)
     /\ lifetime - Unwrap(age) - query.then >= 0
     /\ TimeUntilDeathAtQuery < 0) => changed

\* What has_changed does report of a death between then and now: the death
\* that lies less than a year behind now, and any death once there are
\* lifestage rates and the step is longer than 1,000 years.
C29_DeathSeenWithinAYear ==
    (/\ query.fn = "has_changed"
     /\ IsSome(age)
     /\ lifetime - Unwrap(age) - query.then >= 0
     /\ TimeUntilDeathAtQuery < 0) =>
        (changed <=> \/ -TimeUntilDeathAtQuery < DEATH_TIMESCALE
                     \/ /\ IsSome(lifestage_evolution)
                        /\ Abs(query.then - query.time) > EVOLUTION_TIMESCALE)

---------------------------------------------------------------------------
(* StarDataEvolution queried again and again                                *)

\* The earlier queries a caller is followed through
MaxEarlierQueries == 1

IdleHistory == asked = <<>>

\* The caller drops what the last query returned and is free to call again;
\* every method borrows the evolution as &self and leaves its fields alone.
AskAgain ==
    /\ query.fn # "none"
    /\ Len(asked) < MaxEarlierQueries
    /\ asked' = Append(asked, IsSome(age) /\ lifetime - Unwrap(age) - query.time < 0)
    /\ query' = NoQuery
    /\ outcome' = NoOutcome
    /\ changed' = FALSE
    /\ until_death' = None
    /\ UNCHANGED self_vars

NextQueries ==
    \/ ApplyToMass /\ UNCHANGED <<parsec_vars, params_vars, new_vars, stars_vars, draw_vars, caller_vars, life_vars, file_vars, con_vars, angle_vars, history_vars, reach_vars, same_vars>>
    \/ ApplyToRadius /\ UNCHANGED <<parsec_vars, params_vars, new_vars, stars_vars, draw_vars, caller_vars, life_vars, file_vars, con_vars, angle_vars, history_vars, reach_vars, same_vars>>
    \/ ApplyToLuminousIntensity /\ UNCHANGED <<parsec_vars, params_vars, new_vars, stars_vars, draw_vars, caller_vars, life_vars, file_vars, con_vars, angle_vars, history_vars, reach_vars, same_vars>>
    \/ ApplyToTemperature /\ UNCHANGED <<parsec_vars, params_vars, new_vars, stars_vars, draw_vars, caller_vars, life_vars, file_vars, con_vars, angle_vars, history_vars, reach_vars, same_vars>>
    \/ HasChanged /\ UNCHANGED <<parsec_vars, params_vars, new_vars, stars_vars, draw_vars, caller_vars, life_vars, file_vars, con_vars, angle_vars, history_vars, reach_vars, same_vars>>
    \/ TimeUntilDeath /\ UNCHANGED <<parsec_vars, params_vars, new_vars, stars_vars, draw_vars, caller_vars, life_vars, file_vars, con_vars, angle_vars, history_vars, reach_vars, same_vars>>
    \/ AskAgain /\ UNCHANGED <<parsec_vars, params_vars, new_vars, stars_vars, draw_vars, caller_vars, life_vars, file_vars, con_vars, angle_vars, reach_vars, same_vars>>

\* Whether the time of the last query lies after the death of the star
QueriedAfterDeath == IsSome(age) /\ TimeUntilDeathAtQuery < 0

\* What the last query has to return, told from the fields of the evolution,
\* the input value and the queried time alone.
AnswersFromTheStateAlone ==
    /\ query.fn \in ApplyFns =>
          IF QueriedAfterDeath
          THEN /\ outcome.branch = "PostDeath"
               /\ outcome.result = query.fate_return
          ELSE /\ outcome.branch = "Interpolating"
               /\ outcome.result
                      = query.value + TimesYears(RatePerYearOf(query.fn), query.time)
    /\ query.fn = "has_changed" =>
          (changed <=> \/ QueriedAfterDeath /\ -TimeUntilDeathAtQuery < DEATH_TIMESCALE
                       \/ /\ IsSome(lifestage_evolution)
                          /\ Abs(query.then - query.time) > EVOLUTION_TIMESCALE)
    /\ query.fn = "time_until_death" =>
          until_death = IF IsSome(age) THEN Some(TimeUntilDeathAtQuery) ELSE None

\* C26: evolution queries keep no state. No has_changed, time_until_death or
\* apply_to call changes the lifestage rates, the age, the lifetime or the
\* fate, and whatever was asked before, each result follows from the fields,
\* the input value and the queried time alone: a query at a time before the
\* death made after a query at a time after the death interpolates again.
C26_QueriesKeepNoState ==
    /\ [][self_vars' = self_vars]_vars
    /\ []AnswersFromTheStateAlone

\* A value interpolated at a time before the death, after an earlier query
\* at a time after the death.
C26_Witness ==
    /\ asked = <<TRUE>>
    /\ query.fn = "apply_to_mass"
    /\ IsSome(age)
    /\ TimeUntilDeathAtQuery >= 0
    /\ outcome.branch = "Interpolating"
    /\ outcome.result > query.value

---------------------------------------------------------------------------
(* is_reachable_within called on its own                                    *)

\* The largest index of a star, the most steps allowed and the most
\* connections handed in
MaxNode == 2
MaxSteps == 3
MaxConnections == 3

Nodes == 0..MaxNode

\* The connections the stars can have among them; their distance plays no
\* part (tests::connections_in_line sets ANGLE_ZERO)
ConnectionsAmongNodes ==
    {[from |-> i, to |-> j, distance |-> 0] : i, j \in Nodes} \ 
    {[from |-> i, to |-> i, distance |-> 0] : i \in Nodes}

ConnectionLists == UNION {[1..n -> ConnectionsAmongNodes] : n \in 0..MaxConnections}

InitReachable ==
    /\ reach_args \in [start : Nodes, end : Nodes, max_steps : 0..MaxSteps,
                       connections : ConnectionLists]
    /\ reach_pc = "call"
    /\ reach_result = "none"

IdleReachable ==
    /\ reach_args = [start |-> 0, end |-> 0, max_steps |-> 0, connections |-> <<>>]
    /\ reach_pc = "idle"
    /\ reach_result = "none"

IsReachableWithin ==
    /\ reach_pc = "call"
    /\ reach_result' = is_reachable_within(reach_args.start, reach_args.end,
                                           reach_args.max_steps, reach_args.connections)
    /\ reach_pc' = "done"
    /\ UNCHANGED reach_args

NextReachable ==
    \/ IsReachableWithin /\ UNCHANGED <<parsec_vars, params_vars, evolution_vars, new_vars, stars_vars, draw_vars, caller_vars, life_vars, file_vars, con_vars, angle_vars, history_vars, same_vars>>

\* The stars reached from start by following at most k connections
RECURSIVE WithinSteps(_, _, _)
WithinSteps(start, k, connections) ==
    IF k = 0
    THEN {start}
    ELSE LET nearer == WithinSteps(start, k - 1, connections)
         IN  nearer \cup {other_end(connections[c], i) :
                              <<c, i>> \in {p \in (1..Len(connections)) \X nearer :
                                                connects_to(connections[p[1]], p[2])}}

\* C27: is_reachable_within is true exactly when end is reached from start by
\* following at most max_steps connections, a star being reached from itself
\* in 0 steps; it returns for every input and never takes 1 from a max_steps
\* of 0.
C27_ReachableExactly ==
    reach_pc = "done" =>
        /\ reach_result \in {"true", "false"}
        /\ reach_result = "true"
               <=> reach_args.end \in WithinSteps(reach_args.start, reach_args.max_steps,
                                                  reach_args.connections)

\* What does hold: between two different stars the answer is exact, for a
\* star and itself it is true only if some connection touches the star, and
\* max_steps is never taken below 0.
C27_ExactBetweenDifferentStars ==
    reach_pc = "done" =>
        /\ reach_result \in {"true", "false"}
        /\ reach_args.start # reach_args.end =>
              (reach_result = "true"
                   <=> reach_args.end \in WithinSteps(reach_args.start,
                                                      reach_args.max_steps,
                                                      reach_args.connections))
        /\ reach_args.start = reach_args.end =>
              (reach_result = "true"
                   <=> \E k \in 1..Len(reach_args.connections) :
                           connects_to(reach_args.connections[k], reach_args.start))

---------------------------------------------------------------------------
(* minimum_spanning_tree, claim by claim                                    *)

\* The pairs of stars, and the stars joined to star 0 through some of them
PairsOfStars(n) == {p \in (0..(n - 1)) \X (0..(n - 1)) : p[1] < p[2]}

RECURSIVE JoinedTo(_, _, _)
JoinedTo(joined, chosen, rounds) ==
    IF rounds = 0
    THEN joined
    ELSE JoinedTo(joined \cup {p[1] : p \in {q \in chosen : q[2] \in joined}}
                         \cup {p[2] : p \in {q \in chosen : q[1] \in joined}},
                  chosen, rounds - 1)

SpanningTrees(n) ==
    {chosen \in SUBSET PairsOfStars(n) :
        /\ Cardinality(chosen) = n - 1
        /\ JoinedTo({0}, chosen, n - 1) = 0..(n - 1)}

RECURSIVE TotalDistance(_, _)
TotalDistance(chosen, ss) ==
    IF chosen = {}
    THEN 0
    ELSE LET p == CHOOSE q \in chosen : TRUE
         IN  angle_to(ss[p[1] + 1], ss[p[2] + 1]) + TotalDistance(chosen \ {p}, ss)

\* The pairs the returned connections join, the lower star first
PairsOfResult ==
    {IF con_result[k].from < con_result[k].to
     THEN <<con_result[k].from, con_result[k].to>>
     ELSE <<con_result[k].to, con_result[k].from>> : k \in 1..Len(con_result)}

VisitedBefore(k) == {visited[i] : i \in 1..k}

\* What minimum_spanning_tree has returned for two stars or more: a tree
\* grown from star 0, one new star per connection, of minimal total distance.
ReturnedMinimalTree ==
    LET n == Len(con_stars)
    IN  /\ Len(con_result) = n - 1
        /\ Len(visited) = n
        /\ \A k \in 1..(n - 1) :
              /\ con_result[k].from \in VisitedBefore(k)
              /\ con_result[k].to = visited[k + 1]
              /\ con_result[k].to \notin VisitedBefore(k)
              /\ con_result[k].distance
                     = angle_to(con_stars[con_result[k].from + 1],
                                con_stars[con_result[k].to + 1])
        /\ PairsOfResult \in SpanningTrees(n)
        /\ \A chosen \in SpanningTrees(n) :
              TotalDistance(PairsOfResult, con_stars) <= TotalDistance(chosen, con_stars)

\* The passes of the loop still to come, plus the call and the return
StepsLeft ==
    CASE con_pc = "call" -> Len(con_stars) + 2
      [] con_pc = "while" -> Len(con_stars) - Len(visited) + 1
      [] OTHER -> 0

\* Any step of minimum_spanning_tree
SpanningTreeStep ==
    \/ SpanningTreeOfFewStars
    \/ SpanningTreeCall
    \/ SpanningTreeWhile
    \/ SpanningTreeReturn

\* C28: for n >= 2 stars minimum_spanning_tree terminates and returns exactly
\* n - 1 connections that form a spanning tree of minimal total angular
\* distance: each added connection joins an already visited star to a star
\* not yet visited, and no star is visited twice; for n < 2 it returns no
\* connection.
C28_MinimalSpanningTree ==
    /\ [](con_fn = "minimum_spanning_tree" /\ con_pc = "done" =>
             IF Len(con_stars) >= 2 THEN ReturnedMinimalTree ELSE con_result = <<>>)
    /\ [](con_fn = "minimum_spanning_tree" /\ con_pc # "done" =>
             ENABLED SpanningTreeStep)
    /\ [][StepsLeft' < StepsLeft /\ StepsLeft' >= 0]_vars

\* A tree returned for four stars of which the one nearest to star 0 is not
\* the next in the list, two stars being at the same place.
C28_Witness ==
    /\ con_fn = "minimum_spanning_tree"
    /\ con_pc = "done"
    /\ Len(con_stars) = 4
    /\ Len(con_result) = 3
    /\ con_result[1].to # 1
    /\ \E i, j \in 1..4 : i # j /\ con_stars[i] = con_stars[j]
    /\ TotalDistance(PairsOfResult, con_stars) > 0

---------------------------------------------------------------------------
(* StarAppearance::apparently_the_same

   An illuminance is a whole number of lux. A direction is a point of a grid
   whose points lie further apart than DIRECTION_ACCURACY.                  *)

\* The largest illuminance, and the last point of the grid of directions
MaxLux == 6
MaxDirection == 1

StarAppearances == [illuminance : 1..MaxLux, direction_in_ecliptic : 0..MaxDirection]

\* self.direction_in_ecliptic.eq_within(&other.direction_in_ecliptic,
\* DIRECTION_ACCURACY)
eq_within(direction, other) == direction = other

\* illuminance_ratio < 0.5 || illuminance_ratio > 5.0, the ratio being
\* illuminance / other
RatioOutOfRange(illuminance, other) ==
    \/ 2 * illuminance < other
    \/ illuminance > 5 * other

apparently_the_same(a, b) ==
    IF ~eq_within(a.direction_in_ecliptic, b.direction_in_ecliptic)
    THEN FALSE
    ELSE IF RatioOutOfRange(a.illuminance, b.illuminance)
    THEN FALSE
    ELSE TRUE

InitAppearance ==
    /\ appearance_a \in StarAppearances
    /\ appearance_b \in StarAppearances
    /\ same_ab = None
    /\ same_ba = None

IdleAppearance ==
    /\ appearance_a = [illuminance |-> 1, direction_in_ecliptic |-> 0]
    /\ appearance_b = [illuminance |-> 1, direction_in_ecliptic |-> 0]
    /\ same_ab = None
    /\ same_ba = None

\* a.apparently_the_same(&b)
ApparentlyTheSameAB ==
    /\ same_ab = None
    /\ same_ab' = Some(apparently_the_same(appearance_a, appearance_b))
    /\ UNCHANGED <<appearance_a, appearance_b, same_ba>>

\* b.apparently_the_same(&a)
ApparentlyTheSameBA ==
    /\ same_ba = None
    /\ same_ba' = Some(apparently_the_same(appearance_b, appearance_a))
    /\ UNCHANGED <<appearance_a, appearance_b, same_ab>>

NextAppearance ==
    \/ ApparentlyTheSameAB /\ UNCHANGED <<parsec_vars, params_vars, evolution_vars, new_vars, stars_vars, draw_vars, caller_vars, life_vars, file_vars, con_vars, angle_vars, history_vars, reach_vars>>
    \/ ApparentlyTheSameBA /\ UNCHANGED <<parsec_vars, params_vars, evolution_vars, new_vars, stars_vars, draw_vars, caller_vars, life_vars, file_vars, con_vars, angle_vars, history_vars, reach_vars>>

\* C30: apparently_the_same is symmetric: for two star appearances a and b of
\* positive illuminance, a.apparently_the_same(b) equals
\* b.apparently_the_same(a).
C30_ApparentlyTheSameIsSymmetric ==
    (IsSome(same_ab) /\ IsSome(same_ba)) => Unwrap(same_ab) = Unwrap(same_ba)

\* Where the two answers do agree: in different directions, and in the same
\* direction unless the brighter star has more than twice and at most five
\* times the illuminance of the dimmer one.
C30_SymmetricOutsideTwoToFive ==
    LET brighter == IF appearance_a.illuminance >= appearance_b.illuminance
                    THEN appearance_a.illuminance ELSE appearance_b.illuminance
        dimmer == IF appearance_a.illuminance >= appearance_b.illuminance
                  THEN appearance_b.illuminance ELSE appearance_a.illuminance
    IN  (IsSome(same_ab) /\ IsSome(same_ba)) =>
            (Unwrap(same_ab) # Unwrap(same_ba)
                 <=> /\ appearance_a.direction_in_ecliptic
                            = appearance_b.direction_in_ecliptic
                     /\ brighter > 2 * dimmer
                     /\ brighter <= 5 * dimmer)

---------------------------------------------------------------------------
(* Specifications                                                          *)

InitSpecMassIndex ==
    InitMassIndex /\ IdleClosestParams /\ IdleEvolution /\ IdleLifestageNew /\ IdleRandomStars /\ IdleDraws /\ IdleCallers /\ IdleLife /\ IdleReadFile /\ IdleConstellation /\ IdleAngle /\ IdleHistory /\ IdleReachable /\ IdleAppearance

SpecMassIndex == InitSpecMassIndex /\ [][NextMassIndex]_vars

InitSpecClosestParams ==
    InitClosestParams /\ IdleMassIndex /\ IdleEvolution /\ IdleLifestageNew /\ IdleRandomStars /\ IdleDraws /\ IdleCallers /\ IdleLife /\ IdleReadFile /\ IdleConstellation /\ IdleAngle /\ IdleHistory /\ IdleReachable /\ IdleAppearance

SpecClosestParams == InitSpecClosestParams /\ [][NextClosestParams]_vars

InitSpecEvolution ==
    InitEvolution /\ IdleMassIndex /\ IdleClosestParams /\ IdleLifestageNew /\ IdleRandomStars /\ IdleDraws /\ IdleCallers /\ IdleLife /\ IdleReadFile /\ IdleConstellation /\ IdleAngle /\ IdleHistory /\ IdleReachable /\ IdleAppearance

SpecEvolution == InitSpecEvolution /\ [][NextEvolution]_vars

InitSpecLifestageNew ==
    InitLifestageNew /\ IdleMassIndex /\ IdleClosestParams /\ IdleEvolution /\ IdleRandomStars /\ IdleDraws /\ IdleCallers /\ IdleLife /\ IdleReadFile /\ IdleConstellation /\ IdleAngle /\ IdleHistory /\ IdleReachable /\ IdleAppearance

SpecLifestageNew == InitSpecLifestageNew /\ [][NextLifestageNew]_vars

InitSpecRoundTrip ==
    InitRoundTrip /\ IdleMassIndex /\ IdleClosestParams /\ IdleEvolution /\ IdleRandomStars /\ IdleDraws /\ IdleCallers /\ IdleLife /\ IdleReadFile /\ IdleConstellation /\ IdleAngle /\ IdleHistory /\ IdleReachable /\ IdleAppearance

SpecRoundTrip == InitSpecRoundTrip /\ [][NextRoundTrip]_vars

InitSpecRandomStars ==
    /\ InitRandomStars /\ IdleDraws /\ IdleCallers /\ IdleLife
    /\ IdleMassIndex /\ IdleClosestParams /\ IdleEvolution /\ IdleLifestageNew /\ IdleReadFile /\ IdleConstellation /\ IdleAngle /\ IdleHistory /\ IdleReachable /\ IdleAppearance

SpecRandomStars == InitSpecRandomStars /\ [][NextRandomStars]_vars

InitSpecDraws ==
    /\ InitDraws /\ IdleCallers /\ IdleLife
    /\ IdleMassIndex /\ IdleClosestParams /\ IdleEvolution /\ IdleLifestageNew /\ IdleReadFile /\ IdleConstellation /\ IdleAngle /\ IdleHistory /\ IdleReachable /\ IdleAppearance

SpecDraws == InitSpecDraws /\ [][NextDraws]_vars

\* A call that is not blocked takes its next step.
SpecDrawsFair == SpecDraws /\ WF_vars(NextDraws)

InitSpecCallers ==
    /\ InitCallers /\ IdleChunks /\ IdleDraws /\ IdleLife
    /\ IdleMassIndex /\ IdleClosestParams /\ IdleEvolution /\ IdleLifestageNew /\ IdleReadFile /\ IdleConstellation /\ IdleAngle /\ IdleHistory /\ IdleReachable /\ IdleAppearance

SpecCallers == InitSpecCallers /\ [][NextCallers]_vars

InitSpecLife ==
    /\ InitLife /\ IdleRandomStars /\ IdleDraws /\ IdleCallers
    /\ IdleMassIndex /\ IdleClosestParams /\ IdleEvolution /\ IdleLifestageNew /\ IdleReadFile /\ IdleConstellation /\ IdleAngle /\ IdleHistory /\ IdleReachable /\ IdleAppearance

SpecLife == InitSpecLife /\ [][NextLife]_vars

InitSpecReadFile ==
    /\ InitReadFile
    /\ IdleCallers /\ IdleClosestParams /\ IdleDraws /\ IdleEvolution
    /\ IdleLife /\ IdleLifestageNew /\ IdleMassIndex /\ IdleRandomStars /\ IdleConstellation /\ IdleAngle /\ IdleHistory /\ IdleReachable /\ IdleAppearance

SpecReadFile == InitSpecReadFile /\ [][NextReadFile]_vars

InitSpecCollect ==
    /\ InitCollect
    /\ IdleCallers /\ IdleClosestParams /\ IdleDraws /\ IdleEvolution
    /\ IdleLife /\ IdleLifestageNew /\ IdleMassIndex /\ IdleRandomStars
    /\ IdleReadFile /\ IdleAngle /\ IdleHistory /\ IdleReachable /\ IdleAppearance

SpecCollect == InitSpecCollect /\ [][NextCollect]_vars

InitSpecAngle ==
    /\ InitAngle
    /\ IdleCallers /\ IdleClosestParams /\ IdleConstellation /\ IdleDraws
    /\ IdleEvolution /\ IdleLife /\ IdleLifestageNew /\ IdleMassIndex
    /\ IdleRandomStars /\ IdleReadFile /\ IdleHistory /\ IdleReachable /\ IdleAppearance

SpecAngle == InitSpecAngle /\ [][NextAngle]_vars

InitSpecQueries ==
    /\ InitEvolution
    /\ IdleAngle /\ IdleCallers /\ IdleClosestParams /\ IdleConstellation
    /\ IdleDraws /\ IdleHistory /\ IdleLife /\ IdleLifestageNew
    /\ IdleMassIndex /\ IdleRandomStars /\ IdleReadFile /\ IdleReachable /\ IdleAppearance

SpecQueries == InitSpecQueries /\ [][NextQueries]_vars

InitSpecReachable ==
    /\ InitReachable
    /\ IdleAngle /\ IdleCallers /\ IdleClosestParams /\ IdleConstellation
    /\ IdleDraws /\ IdleEvolution /\ IdleHistory /\ IdleLife
    /\ IdleLifestageNew /\ IdleMassIndex /\ IdleRandomStars /\ IdleReadFile /\ IdleAppearance

SpecReachable == InitSpecReachable /\ [][NextReachable]_vars

InitSpecSpanningTree ==
    /\ InitSpanningTree
    /\ IdleAngle /\ IdleCallers /\ IdleClosestParams /\ IdleDraws
    /\ IdleEvolution /\ IdleHistory /\ IdleLife /\ IdleLifestageNew
    /\ IdleMassIndex /\ IdleRandomStars /\ IdleReachable /\ IdleReadFile /\ IdleAppearance

SpecSpanningTree == InitSpecSpanningTree /\ [][NextSpanningTree]_vars

InitSpecAppearance ==
    /\ InitAppearance
    /\ IdleAngle /\ IdleCallers /\ IdleClosestParams /\ IdleConstellation
    /\ IdleDraws /\ IdleEvolution /\ IdleHistory /\ IdleLife
    /\ IdleLifestageNew /\ IdleMassIndex /\ IdleRandomStars /\ IdleReachable
    /\ IdleReadFile

SpecAppearance == InitSpecAppearance /\ [][NextAppearance]_vars

=============================================================================
